---- MODULE Spec2Model ----
(***************************************************************************)
(* Model of the bridge API core: the in-process LRU/TTL cache              *)
(* (src/core/cache.py), cache-first data serving and precompute            *)
(* (src/services/data_serving.py, precompute.py), the guarded query        *)
(* executor (src/integrations/bigquery_client.py,                          *)
(* src/services/sql_executor.py) and the lineage store                     *)
(* (src/services/lineage.py).                                              *)
(*                                                                         *)
(* Python strings are sequences of one-character strings, so that          *)
(* substring tests, prefix tests and key formatting are computed, not      *)
(* assumed.  Optional results are <<>> (None) or <<v>>.                    *)
(***************************************************************************)
EXTENDS Integers, Sequences, FiniteSets, TLC

VARIABLES
    now,        \* wall clock, time.time() / datetime.utcnow(), in seconds
    cache,      \* InMemoryCache._cache: OrderedDict, oldest entry first
    cret,       \* outcome of the last direct cache call
    accOrder,   \* history: cached keys by most recent successful access, oldest first
    lastSet,    \* history: the last set() of the followed key, and whether it is intact
    allowed_datasets,   \* settings.bigquery_allowed_datasets
    xres,       \* outcome of the last SQLExecutorService call
    queryLog,   \* rows of the query_logs table
    tasks,      \* execute_batch in progress: one task per query, in order
    result_map, \* what the last completed execute_batch returned
    max_concurrent_queries, \* settings.max_concurrent_queries
    executor_workers,       \* threads of the event loop's default executor
    redis,      \* keys of the Redis server behind RedisCache
    bret,       \* results of the last call made to both cache backends
    compiled,   \* the POST /dashboards/compile received, and its outcome
    hashed,     \* two SQL texts and the hashes computed for them
    dashboards, \* rows of the dashboards table, by slug
    sreq,       \* the serve_dashboard_data call in progress
    preq,       \* the precompute_dashboard call in progress
    resp,       \* what the service call completed by the last step returned
    writtenVer, \* history: dashboard version each cached payload was computed for
    first,      \* history: the serve that first cached the followed dashboard's key
    epoch,      \* history: the last version increment of the followed dashboard
    warm,       \* history: the last completed precompute of the followed dashboard
    lnodes,     \* committed rows of lineage_nodes
    ledges,     \* committed rows of lineage_edges
    rebuilds,   \* number of build_lineage_for_dashboard calls started, by slug
    tx,         \* the build_lineage_for_dashboard call in progress and its session
    greq,       \* the get_lineage_graph call in progress
    gresp,      \* what the lineage call completed by the last step returned
    lineage     \* history: definitions of the last two committed rebuilds, by slug

cacheVars == <<now, cache, cret, accOrder, lastSet>>
batchVars == <<tasks, result_map, max_concurrent_queries, executor_workers>>
backendVars == <<redis, bret>>
\* state of the components the executor never touches
compileVars == <<compiled, hashed>>
sideVars == <<backendVars, compileVars>>
execVars == <<allowed_datasets, xres, queryLog, batchVars, sideVars>>
serveVars == <<dashboards, sreq, preq, resp, writtenVer, first, epoch, warm>>
lineageVars == <<lnodes, ledges, rebuilds, tx, greq, gresp, lineage>>

vars == <<now, cache, cret, accOrder, lastSet, allowed_datasets, xres, queryLog,
          tasks, result_map, max_concurrent_queries, executor_workers,
          redis, bret, compiled, hashed,
          dashboards, sreq, preq, resp, writtenVer, first, epoch, warm,
          lnodes, ledges, rebuilds, tx, greq, gresp, lineage>>

----------------------------------------------------------------------------
(* Bounds *)

MaxTime == 3        \* the clock stops advancing here
MaxSize == 2        \* InMemoryCache.max_size used in the model
DefaultTtl == 2     \* InMemoryCache.default_ttl used in the model (seconds)
MaxTtl == 1         \* largest explicit ttl argument tried

----------------------------------------------------------------------------
(* Strings *)

Digits == <<"0", "1", "2", "3", "4", "5", "6", "7", "8", "9">>

RECURSIVE IntToStr(_)
IntToStr(n) ==
    IF n < 10 THEN <<Digits[n + 1]>>
    ELSE IntToStr(n \div 10) \o <<Digits[(n % 10) + 1]>>

\* Python `sub in s`
Contains(sub, s) ==
    \E i \in 0..(Len(s) - Len(sub)) : SubSeq(s, i + 1, i + Len(sub)) = sub

StartsWith(s, prefix) ==
    /\ Len(prefix) <= Len(s)
    /\ SubSeq(s, 1, Len(prefix)) = prefix

SeqToSet(s) == {s[i] : i \in 1..Len(s)}

SlugA == <<"r", "e", "v">>
SlugB == <<"o", "p", "s">>
Slugs == {SlugA, SlugB}

StrDashboard == <<"d", "a", "s", "h", "b", "o", "a", "r", "d", ":">>
StrData == <<":", "d", "a", "t", "a", ":", "v">>
StrLineage == <<"l", "i", "n", "e", "a", "g", "e", ":">>

\* variant: the key does not carry the version
DataKey_NoVersion(slug, version) == StrDashboard \o slug \o StrData

\* f"dashboard:{slug}:data:v{dashboard.version}"
DataKey(slug, version) ==
    StrDashboard \o slug \o StrData \o IntToStr(version)

\* f"lineage:{slug}"
build_lineage_cache_key(slug) == StrLineage \o slug

----------------------------------------------------------------------------
(* InMemoryCache *)

NoTtl == -1     \* encodes ttl=None

Keys == {DataKey(SlugA, 1), DataKey(SlugA, 2), DataKey(SlugB, 1)}
Values == {"v1", "v2"}
Ttls == {NoTtl} \cup (0..MaxTtl)
Patterns == {StrDashboard \o SlugA, StrDashboard \o SlugA \o <<":", "*">>}

CacheKeys(c) == {c[i].key : i \in 1..Len(c)}

Entry(c, k) == c[CHOOSE i \in 1..Len(c) : c[i].key = k]

Without(c, k) == SelectSeq(c, LAMBDA e : e.key # k)

_is_expired(expiry, t) == t > expiry

_evict_expired(c, t) == SelectSeq(c, LAMBDA e : ~(t > e.expiry))

_evict_lru(c) == IF Len(c) >= MaxSize THEN Tail(c) ELSE c

\* ttl_seconds = ttl or self.default_ttl
TtlSeconds(ttl) == IF ttl = NoTtl \/ ttl = 0 THEN DefaultTtl ELSE ttl

\* variant: the expiry is the ttl itself, the current time is not added
Expiry_NoClock(t, ttl) == TtlSeconds(ttl)

\* expiry = time.time() + ttl_seconds
Expiry(t, ttl) == t + TtlSeconds(ttl)

\* variant: a hit does not move the entry to the end
CacheGet_NoMove(c, k, t) ==
    LET c1 == _evict_expired(c, t) IN
    IF k \notin CacheKeys(c1) THEN [cache |-> c1, value |-> <<>>]
    ELSE LET e == Entry(c1, k) IN
         IF _is_expired(e.expiry, t)
         THEN [cache |-> Without(c1, k), value |-> <<>>]
         ELSE [cache |-> c1, value |-> <<e.value>>]

\* get: [cache |-> cache after the call, value |-> <<>> or <<v>>]
CacheGet(c, k, t) ==
    LET c1 == _evict_expired(c, t) IN
    IF k \notin CacheKeys(c1) THEN [cache |-> c1, value |-> <<>>]
    ELSE LET e == Entry(c1, k) IN
         IF _is_expired(e.expiry, t)
         THEN [cache |-> Without(c1, k), value |-> <<>>]
         ELSE [cache |-> Append(Without(c1, k), e), value |-> <<e.value>>]

\* variant: set stores nothing
CacheSet_NoStore(c, k, v, ttl, t) == c

\* set: the cache after the call (set always returns True)
CacheSet(c, k, v, ttl, t) ==
    LET c1 == _evict_lru(_evict_expired(c, t)) IN
    Append(Without(c1, k), [key |-> k, value |-> v, expiry |-> Expiry(t, ttl)])

CacheDelete(c, k) ==
    [cache |-> Without(c, k), result |-> k \in CacheKeys(c)]

CacheInvalidatePattern(c, pattern) ==
    LET hit == {k \in CacheKeys(c) : Contains(pattern, k)} IN
    [cache |-> SelectSeq(c, LAMBDA e : e.key \notin hit),
     count |-> Cardinality(hit)]

----------------------------------------------------------------------------
(* History bookkeeping for the cache calls *)

NoSet == [value |-> "", ttl |-> NoTtl, at |-> -1, intact |-> FALSE]

Touch(order, k) == Append(SelectSeq(order, LAMBDA x : x # k), k)

\* the access history of the keys still cached
Present(order, c) == SelectSeq(order, LAMBDA x : x \in CacheKeys(c))

\* the key whose set() is followed by lastSet
Watched == DataKey(SlugA, 1)

\* the followed set() is no longer intact once its key is among `gone`
Dropped(ls, gone) ==
    IF Watched \in gone THEN [ls EXCEPT !.intact = FALSE] ELSE ls

NoRet == [op |-> "none", key |-> <<>>, value |-> <<>>, found |-> FALSE,
          count |-> 0, full |-> FALSE, isNew |-> FALSE, removed |-> {},
          lru |-> <<>>]

\* the present key whose most recent access is the oldest
LruOf(order, present) ==
    LET live == SelectSeq(order, LAMBDA x : x \in present) IN
    IF live = <<>> THEN <<>> ELSE <<Head(live)>>

----------------------------------------------------------------------------
(* Cache calls *)

Get(k) ==
    LET r == CacheGet(cache, k, now) IN
    /\ cache' = r.cache
    /\ cret' = [NoRet EXCEPT !.op = "get", !.key = k, !.value = r.value]
    /\ accOrder' = Present(IF r.value # <<>> THEN Touch(accOrder, k) ELSE accOrder, r.cache)
    /\ UNCHANGED <<now, lastSet>>
    /\ UNCHANGED <<execVars, serveVars, lineageVars>>

\* exists: value = await self.get(key); return value is not None
Exists(k) ==
    LET r == CacheGet(cache, k, now) IN
    /\ cache' = r.cache
    /\ cret' = [NoRet EXCEPT !.op = "exists", !.key = k, !.found = (r.value # <<>>)]
    /\ accOrder' = Present(IF r.value # <<>> THEN Touch(accOrder, k) ELSE accOrder, r.cache)
    /\ UNCHANGED <<now, lastSet>>
    /\ UNCHANGED <<execVars, serveVars, lineageVars>>

Set(k, v, ttl) ==
    LET pre == _evict_expired(cache, now)
        kept == _evict_lru(pre)
        gone == CacheKeys(pre) \ CacheKeys(kept)
    IN
    /\ cache' = CacheSet(cache, k, v, ttl, now)
    /\ cret' = [NoRet EXCEPT !.op = "set", !.key = k, !.value = <<v>>,
                             !.full = (Len(pre) >= MaxSize),
                             !.isNew = (k \notin CacheKeys(pre)),
                             !.removed = CacheKeys(pre) \ CacheKeys(cache'),
                             !.lru = LruOf(accOrder, CacheKeys(pre))]
    /\ accOrder' = Present(Touch(accOrder, k), cache')
    /\ lastSet' = IF k = Watched
                  THEN [value |-> v, ttl |-> ttl, at |-> now, intact |-> TRUE]
                  ELSE Dropped(lastSet, gone)
    /\ UNCHANGED now
    /\ UNCHANGED <<execVars, serveVars, lineageVars>>

Delete(k) ==
    LET r == CacheDelete(cache, k) IN
    /\ cache' = r.cache
    /\ cret' = [NoRet EXCEPT !.op = "delete", !.key = k, !.found = r.result]
    /\ lastSet' = Dropped(lastSet, {k})
    /\ accOrder' = Present(accOrder, r.cache)
    /\ UNCHANGED now
    /\ UNCHANGED <<execVars, serveVars, lineageVars>>

InvalidatePattern(p) ==
    LET r == CacheInvalidatePattern(cache, p) IN
    /\ cache' = r.cache
    /\ cret' = [NoRet EXCEPT !.op = "invalidate", !.key = p, !.count = r.count,
                             !.removed = CacheKeys(cache) \ CacheKeys(r.cache)]
    /\ lastSet' = Dropped(lastSet, CacheKeys(cache) \ CacheKeys(r.cache))
    /\ accOrder' = Present(accOrder, r.cache)
    /\ UNCHANGED now
    /\ UNCHANGED <<execVars, serveVars, lineageVars>>

Clear ==
    /\ cache' = <<>>
    /\ cret' = [NoRet EXCEPT !.op = "clear"]
    /\ lastSet' = Dropped(lastSet, Keys)
    /\ accOrder' = <<>>
    /\ UNCHANGED now
    /\ UNCHANGED <<execVars, serveVars, lineageVars>>

\* health_check: purges expired entries and reports the size
HealthCheck ==
    /\ cache' = _evict_expired(cache, now)
    /\ cret' = [NoRet EXCEPT !.op = "health", !.count = Len(cache')]
    /\ accOrder' = Present(accOrder, cache')
    /\ UNCHANGED <<now, lastSet>>
    /\ UNCHANGED <<execVars, serveVars, lineageVars>>

Tick ==
    /\ now < MaxTime
    /\ now' = now + 1
    /\ cret' = NoRet
    /\ UNCHANGED <<cache, accOrder, lastSet>>
    /\ UNCHANGED <<execVars, serveVars, lineageVars>>

----------------------------------------------------------------------------
(* RedisCache, and the two backends called side by side *)

\* Python values handed to set(): a str, a tuple and a list
PyStr(x) == [type |-> "str", items |-> <<x>>]
PyTuple(xs) == [type |-> "tuple", items |-> xs]
PyList(xs) == [type |-> "list", items |-> xs]
\* a dict with str keys and JSON-native values, as the services store
PyDict(d) == [type |-> "dict", items |-> d]

BackendValues == {PyStr("v1"), PyStr("v2"), PyTuple(<<"a", "b">>)}

\* json.dumps: a str becomes a JSON string, a dict a JSON object, a tuple or
\* a list a JSON array
json_dumps(v) ==
    [json |-> IF v.type = "str" THEN "string"
              ELSE IF v.type = "dict" THEN "object" ELSE "array",
     items |-> v.items]

\* json.loads: a JSON string becomes a str, a JSON object a dict, a JSON
\* array a list
json_loads(j) ==
    [type |-> IF j.json = "string" THEN "str"
              ELSE IF j.json = "object" THEN "dict" ELSE "list",
     items |-> j.items]

\* glob-style matching of SCAN MATCH: * is any run of characters, ? any one
RECURSIVE GlobMatch(_, _)
GlobMatch(pattern, key) ==
    IF pattern = <<>> THEN key = <<>>
    ELSE IF Head(pattern) = "*"
    THEN IF GlobMatch(Tail(pattern), key) THEN TRUE
         ELSE key # <<>> /\ GlobMatch(pattern, Tail(key))
    ELSE IF key = <<>> THEN FALSE
    ELSE IF Head(pattern) = "?" \/ Head(pattern) = Head(key)
    THEN GlobMatch(Tail(pattern), Tail(key))
    ELSE FALSE

\* the matching above, evaluated once per pattern and key
GlobMatchOf == [pattern \in Patterns |-> {k \in Keys : GlobMatch(pattern, k)}]

\* the server drops a key when its time to live has run out
RedisLive(r, t) == {e \in r : ~_is_expired(e.expiry, t)}

\* RedisCache.get: GET, then json.loads
RedisGet(r, k, t) ==
    LET live == RedisLive(r, t)
        found == {e \in live : e.key = k}
    IN [store |-> live,
        value |-> IF found = {} THEN <<>>
                  ELSE <<json_loads((CHOOSE e \in found : TRUE).value)>>]

\* RedisCache.set: json.dumps, then SETEX with ttl or default_ttl
RedisSet(r, k, v, ttl, t) ==
    [store |-> {e \in RedisLive(r, t) : e.key # k}
               \cup {[key |-> k, value |-> json_dumps(v), expiry |-> Expiry(t, ttl)]},
     result |-> TRUE]

\* RedisCache.delete: DEL, result > 0
RedisDelete(r, k, t) ==
    LET live == RedisLive(r, t) IN
    [store |-> {e \in live : e.key # k}, result |-> \E e \in live : e.key = k]

\* RedisCache.invalidate_pattern: SCAN MATCH pattern, then DEL of the keys found
RedisInvalidatePattern(r, pattern, t) ==
    LET live == RedisLive(r, t)
        keys == {e.key : e \in live} \cap GlobMatchOf[pattern]
    IN [store |-> {e \in live : e.key \notin keys}, count |-> Cardinality(keys)]

\* variant: an error of the Redis client leaves get
RedisCacheGet_Raises(r, k, t, up) ==
    IF up THEN [store |-> RedisGet(r, k, t).store, value |-> RedisGet(r, k, t).value,
                raised |-> FALSE]
    ELSE [store |-> r, value |-> <<>>, raised |-> TRUE]

\* RedisCache.get with its handler: any exception of the client is logged
\* and None returned.  [store, value, raised]
RedisCacheGet(r, k, t, up) ==
    IF up THEN [store |-> RedisGet(r, k, t).store, value |-> RedisGet(r, k, t).value,
                raised |-> FALSE]
    ELSE [store |-> r, value |-> <<>>, raised |-> FALSE]

\* RedisCache.set with its handler: any exception of the client is logged
\* and False returned.  [store, result, raised]
RedisCacheSet(r, k, v, ttl, t, up) ==
    IF up THEN [store |-> RedisSet(r, k, v, ttl, t).store, result |-> TRUE,
                raised |-> FALSE]
    ELSE [store |-> r, result |-> FALSE, raised |-> FALSE]

NoBret == [op |-> "none", key |-> <<>>, local |-> <<>>, remote |-> <<>>,
           localKeys |-> {}, remoteKeys |-> {}]

\* the keys a get would still find
LiveKeys(c, t) == CacheKeys(_evict_expired(c, t))

\* both backends after a call: the results and the keys left
Both(op, k, l, r, c2, r2) ==
    [op |-> op, key |-> k, local |-> l, remote |-> r,
     localKeys |-> LiveKeys(c2, now), remoteKeys |-> {e.key : e \in RedisLive(r2, now)}]

BackendGet(k) ==
    LET l == CacheGet(cache, k, now)
        r == RedisGet(redis, k, now)
    IN /\ cache' = l.cache
       /\ redis' = r.store
       /\ bret' = Both("get", k, l.value, r.value, l.cache, r.store)
       /\ UNCHANGED <<now, cret, accOrder, lastSet>>
       /\ UNCHANGED <<allowed_datasets, xres, queryLog, batchVars, compileVars, serveVars, lineageVars>>

\* capacity is never reached: the set finds room without evicting
BackendSet(k, v, ttl) ==
    LET r == RedisSet(redis, k, v, ttl, now) IN
    /\ Len(_evict_expired(cache, now)) < MaxSize
    /\ cache' = CacheSet(cache, k, v, ttl, now)
    /\ redis' = r.store
    /\ bret' = Both("set", k, <<TRUE>>, <<r.result>>, cache', r.store)
    /\ UNCHANGED <<now, cret, accOrder, lastSet>>
    /\ UNCHANGED <<allowed_datasets, xres, queryLog, batchVars, compileVars, serveVars, lineageVars>>

BackendDelete(k) ==
    LET l == CacheDelete(cache, k)
        r == RedisDelete(redis, k, now)
    IN /\ cache' = l.cache
       /\ redis' = r.store
       /\ bret' = Both("delete", k, <<l.result>>, <<r.result>>, l.cache, r.store)
       /\ UNCHANGED <<now, cret, accOrder, lastSet>>
       /\ UNCHANGED <<allowed_datasets, xres, queryLog, batchVars, compileVars, serveVars, lineageVars>>

BackendInvalidatePattern(pattern) ==
    LET l == CacheInvalidatePattern(cache, pattern)
        r == RedisInvalidatePattern(redis, pattern, now)
    IN /\ cache' = l.cache
       /\ redis' = r.store
       /\ bret' = Both("invalidate_pattern", pattern, <<l.count>>, <<r.count>>,
                       l.cache, r.store)
       /\ UNCHANGED <<now, cret, accOrder, lastSet>>
       /\ UNCHANGED <<allowed_datasets, xres, queryLog, batchVars, compileVars, serveVars, lineageVars>>

BackendTick ==
    /\ now < MaxTime
    /\ now' = now + 1
    /\ bret' = NoBret
    /\ UNCHANGED <<cache, cret, accOrder, lastSet, redis>>
    /\ UNCHANGED <<allowed_datasets, xres, queryLog, batchVars, compileVars, serveVars, lineageVars>>

----------------------------------------------------------------------------
(* Guarded query execution: BigQueryClient and SQLExecutorService *)

LowerLetters == <<"a", "b", "c", "d", "e", "f", "g", "h", "i", "j", "k", "l", "m",
    "n", "o", "p", "q", "r", "s", "t", "u", "v", "w", "x", "y", "z">>
UpperLetters == <<"A", "B", "C", "D", "E", "F", "G", "H", "I", "J", "K", "L", "M",
    "N", "O", "P", "Q", "R", "S", "T", "U", "V", "W", "X", "Y", "Z">>

\* str.upper(), character by character
UpperChar(ch) ==
    IF \E i \in 1..26 : LowerLetters[i] = ch
    THEN UpperLetters[CHOOSE i \in 1..26 : LowerLetters[i] = ch]
    ELSE ch

Upper(s) == [i \in 1..Len(s) |-> UpperChar(s[i])]

\* DANGEROUS_PATTERNS: each keyword is followed by one space
DANGEROUS_PATTERNS == <<
    <<"D", "R", "O", "P", " ">>,
    <<"D", "E", "L", "E", "T", "E", " ">>,
    <<"T", "R", "U", "N", "C", "A", "T", "E", " ">>,
    <<"A", "L", "T", "E", "R", " ">>,
    <<"C", "R", "E", "A", "T", "E", " ">>,
    <<"G", "R", "A", "N", "T", " ">>,
    <<"R", "E", "V", "O", "K", "E", " ">>,
    <<"I", "N", "S", "E", "R", "T", " ">>,
    <<"U", "P", "D", "A", "T", "E", " ">>,
    <<"M", "E", "R", "G", "E", " ">>>>

\* the data-mutating keywords themselves
MutatingKeywords == {
    <<"D", "R", "O", "P">>,
    <<"D", "E", "L", "E", "T", "E">>,
    <<"T", "R", "U", "N", "C", "A", "T", "E">>,
    <<"A", "L", "T", "E", "R">>,
    <<"C", "R", "E", "A", "T", "E">>,
    <<"G", "R", "A", "N", "T">>,
    <<"R", "E", "V", "O", "K", "E">>,
    <<"I", "N", "S", "E", "R", "T">>,
    <<"U", "P", "D", "A", "T", "E">>,
    <<"M", "E", "R", "G", "E">>}

\* pattern.strip() for the patterns above
Strip(p) == SelectSeq(p, LAMBDA ch : ch # " ")

SqlVerbs == {<<"S", "E", "L", "E", "C", "T">>, <<"D", "R", "O", "P">>, <<"d", "r", "o", "p">>}
SqlSeparators == {<<" ">>, <<"\t">>}
SqlRests == {
    <<"x", " ", "F", "R", "O", "M", " ", "d", "s", ".", "t", "b", "l">>,
    <<"x", " ", "F", "R", "O", "M", " ", "o", "t", "h", "e", "r", ".", "t", "b", "l">>,
    <<"T", "A", "B", "L", "E", " ", "u", "s", "e", "r", "s">>}

\* the SQL texts submitted to the executor
SqlTexts == {v \o s \o r : v \in SqlVerbs, s \in SqlSeparators, r \in SqlRests}

DatasetDs == <<"d", "s">>

\* the backquote character, spelled out as one element of a string
Backquote == "backquote"

bigquery_max_bytes_billed == 100000000

NoBytes == -1       \* encodes max_bytes_billed=None, and "no byte count carried"

Overrides == {NoBytes, 50000000, 200000000}
BytesNeeded == {10000000, 150000000}
RowCounts == {0, 150}
MaxLog == 2         \* the query log is followed up to this many rows

Datasets == {DatasetDs}

\* for pattern in DANGEROUS_PATTERNS: if pattern in sql_upper -> first hit
DangerousHit(sql) ==
    LET sql_upper == Upper(sql)
        hits == {i \in 1..Len(DANGEROUS_PATTERNS) : Contains(DANGEROUS_PATTERNS[i], sql_upper)}
    IN
    IF hits = {} THEN <<>>
    ELSE Strip(DANGEROUS_PATTERNS[CHOOSE i \in hits : \A j \in hits : i <= j])

\* f"{dataset}." in sql or f"`{dataset}." in sql
ReferencesDataset(sql, dataset) ==
    \/ Contains(dataset \o <<".">>, sql)
    \/ Contains(<<Backquote>> \o dataset \o <<".">>, sql)

\* the two scans above, evaluated once per SQL text
DangerousHitOf == [sql \in SqlTexts |-> DangerousHit(sql)]
ReferencesDatasetOf == [sql \in SqlTexts |-> {d \in Datasets : ReferencesDataset(sql, d)}]

\* validate_query: [valid, kind, pattern]
validate_query(sql) ==
    IF DangerousHitOf[sql] # <<>>
    THEN [valid |-> FALSE, kind |-> "dangerous", pattern |-> DangerousHitOf[sql]]
    ELSE IF allowed_datasets # <<>>
            /\ ~\E i \in 1..Len(allowed_datasets) :
                   allowed_datasets[i] \in ReferencesDatasetOf[sql]
    THEN [valid |-> FALSE, kind |-> "datasets", pattern |-> <<>>]
    ELSE [valid |-> TRUE, kind |-> "", pattern |-> <<>>]

\* maximum_bytes_billed=max_bytes_billed or settings.bigquery_max_bytes_billed
JobCap(max_bytes_billed) ==
    IF max_bytes_billed = NoBytes \/ max_bytes_billed = 0
    THEN bigquery_max_bytes_billed
    ELSE max_bytes_billed

\* BigQueryClient.execute_query: validation, then one submission to the
\* engine; the engine aborts a job that needs more bytes than its cap.
\* [calls, raised, exc, kind, rows]
execute_query(sql, max_bytes_billed, needed, rows, fault) ==
    LET v == validate_query(sql)
        cap == JobCap(max_bytes_billed)
        call == [sql |-> sql, maximum_bytes_billed |-> cap]
    IN
    IF ~v.valid
    THEN [calls |-> <<>>, raised |-> TRUE, exc |-> "ValueError", kind |-> v.kind, rows |-> 0]
    ELSE IF needed > cap
    THEN [calls |-> <<call>>, raised |-> TRUE, exc |-> "EngineError",
          kind |-> "bytes_exceeded", rows |-> 0]
    ELSE IF fault
    THEN [calls |-> <<call>>, raised |-> TRUE, exc |-> "EngineError", kind |-> "fault", rows |-> 0]
    ELSE [calls |-> <<call>>, raised |-> FALSE, exc |-> "", kind |-> "ok", rows |-> rows]

\* BigQueryClient.execute_for_verification passes the override on
bq_execute_for_verification(sql, max_bytes_billed, needed, rows, fault) ==
    execute_query(sql, max_bytes_billed, needed, rows, fault)

\* BigQueryClient.execute_for_serving has no byte-cap parameter
bq_execute_for_serving(sql, needed, rows, fault) ==
    execute_query(sql, NoBytes, needed, rows, fault)

Min(a, b) == IF a < b THEN a ELSE b

\* _log_query_execution: a failed write is swallowed
Logged(log, entry, logOk) == IF logOk THEN Append(log, entry) ELSE log

\* variant: a failed write of the log row leaves _log_query_execution
_log_query_execution_Raises(log, entry, logOk) ==
    [log |-> Logged(log, entry, logOk), raised |-> ~logOk]

\* _log_query_execution: the row is added and flushed inside try / except
\* Exception, nothing is raised.  [log, raised]
_log_query_execution(log, entry, logOk) ==
    [log |-> Logged(log, entry, logOk), raised |-> FALSE]

\* what a call leaves in xres: the inputs, then the outcome
Outcome(mode, sql, override, needed, rows, fault, logOk, r, outcome, type, code, valid, row_count, rows_returned, added) ==
    [mode |-> mode, sql |-> sql, override |-> override, needed |-> needed,
     rows_in |-> rows, fault |-> fault, logOk |-> logOk,
     calls |-> r.calls, cause |-> r.kind, outcome |-> outcome, type |-> type,
     error_code |-> code, valid |-> valid, row_count |-> row_count,
     rows_returned |-> rows_returned, added |-> added,
     bytes_attempted |-> NoBytes, max_bytes_allowed |-> NoBytes]

\* SQLExecutorService.execute_for_verification: [x, log].  The log call of
\* the success path is inside the try, so an exception leaving it would be
\* handled like a query error; one leaving the handler's own log call would
\* leave the method.
execute_for_verification(log, sql, override, needed, rows, fault, logOk) ==
    LET r == bq_execute_for_verification(sql, override, needed, rows, fault)
        entry == [purpose |-> "verification"]
        l1 == _log_query_execution(log, entry, logOk)
        l2 == IF ~r.raised /\ l1.raised THEN _log_query_execution(l1.log, entry, logOk)
              ELSE l1
        O(outcome, type, valid, row_count, rows_returned, log2) ==
            [x |-> Outcome("verify", sql, override, needed, rows, fault, logOk, r,
                           outcome, type, "", valid, row_count, rows_returned,
                           Len(log2) - Len(log)),
             log |-> log2]
    IN
    IF l2.raised THEN O("raised", "Exception", FALSE, 0, 0, l2.log)
    ELSE IF r.raised \/ l1.raised
    THEN O("returned", "SQLVerificationResult", FALSE, 0, 0, l2.log)
    ELSE O("returned", "SQLVerificationResult", TRUE, r.rows, Min(r.rows, 100), l1.log)

\* SQLExecutorService.execute_for_serving: [x, log].  Only the success path
\* logs; whatever leaves the try is re-raised as BigQueryException.
execute_for_serving(log, sql, override, needed, rows, fault, logOk) ==
    LET r == bq_execute_for_serving(sql, needed, rows, fault)
        l1 == IF r.raised THEN [log |-> log, raised |-> FALSE]
              ELSE _log_query_execution(log, [purpose |-> "serving"], logOk)
        O(outcome, type, code, valid, row_count) ==
            [x |-> Outcome("serve", sql, override, needed, rows, fault, logOk, r,
                           outcome, type, code, valid, row_count, row_count,
                           Len(l1.log) - Len(log)),
             log |-> l1.log]
    IN
    IF r.raised \/ l1.raised
    THEN O("raised", "BigQueryException", "BIGQUERY_ERROR", FALSE, 0)
    ELSE O("returned", "rows", "", TRUE, r.rows)

ExecuteForVerification(sql, override, needed, rows, fault, logOk) ==
    LET c == execute_for_verification(queryLog, sql, override, needed, rows, fault, logOk) IN
    /\ Len(queryLog) < MaxLog
    /\ xres' = c.x
    /\ queryLog' = c.log
    /\ UNCHANGED <<allowed_datasets, batchVars, sideVars, cacheVars, serveVars, lineageVars>>

ExecuteForServing(sql, override, needed, rows, fault, logOk) ==
    LET c == execute_for_serving(queryLog, sql, override, needed, rows, fault, logOk) IN
    /\ Len(queryLog) < MaxLog
    /\ xres' = c.x
    /\ queryLog' = c.log
    /\ UNCHANGED <<allowed_datasets, batchVars, sideVars, cacheVars, serveVars, lineageVars>>

----------------------------------------------------------------------------
(* Parallel execution of a dashboard's queries *)

MaxBatch == 3       \* queries in one execute_batch call
MaxConcurrent == 2  \* values of settings.max_concurrent_queries: 1..MaxConcurrent
MaxWorkers == 3     \* sizes of the default executor's thread pool: 1..MaxWorkers

SqlSelect == <<"S", "E", "L", "E", "C", "T", " ",
               "x", " ", "F", "R", "O", "M", " ", "d", "s", ".", "t", "b", "l">>
SqlDrop == <<"D", "R", "O", "P", " ", "T", "A", "B", "L", "E", " ", "u", "s", "e", "r", "s">>

\* the SQL texts of a dashboard's queries
BatchSqls == {SqlSelect, SqlDrop}

NoResult == <<>>

\* threads inside _sync_execute: submitted to the engine and not yet back
InFlight == {i \in 1..Len(tasks) : tasks[i].pc = "running"}

\* execute_batch: one coroutine per query, handed to asyncio.gather together
BatchStart(queries) ==
    /\ tasks = <<>>
    /\ Len(queryLog) < MaxLog
    /\ tasks' = [i \in 1..Len(queries) |-> [id |-> queries[i].id, sql |-> queries[i].sql,
                                             pc |-> "created", rows |-> 0]]
    /\ result_map' = NoResult
    /\ UNCHANGED <<max_concurrent_queries, executor_workers>>
    /\ UNCHANGED <<allowed_datasets, xres, queryLog, sideVars, cacheVars, serveVars, lineageVars>>

\* _execute_single_for_batch -> execute_for_serving -> execute_query up to
\* run_in_executor: a text that fails validate_query raises before any thread
\* is used, any other is queued on the default executor
TaskSubmit(i) ==
    /\ i \in 1..Len(tasks)
    /\ tasks[i].pc = "created"
    /\ tasks' = [tasks EXCEPT ![i].pc = IF validate_query(tasks[i].sql).valid
                                        THEN "queued" ELSE "raised"]
    /\ UNCHANGED <<result_map, max_concurrent_queries, executor_workers>>
    /\ UNCHANGED <<allowed_datasets, xres, queryLog, sideVars, cacheVars, serveVars, lineageVars>>

\* a free thread of the default executor takes the call: client.query(...)
WorkerStart(i) ==
    /\ i \in 1..Len(tasks)
    /\ tasks[i].pc = "queued"
    /\ Cardinality(InFlight) < executor_workers
    /\ tasks' = [tasks EXCEPT ![i].pc = "running"]
    /\ UNCHANGED <<result_map, max_concurrent_queries, executor_workers>>
    /\ UNCHANGED <<allowed_datasets, xres, queryLog, sideVars, cacheVars, serveVars, lineageVars>>

\* the job ends; execute_for_serving logs a success and returns the rows, or
\* raises BigQueryException
WorkerFinish(i, needed, rows, fault, logOk) ==
    /\ i \in 1..Len(tasks)
    /\ tasks[i].pc = "running"
    /\ LET c == execute_for_serving(queryLog, tasks[i].sql, NoBytes, needed, rows, fault,
                                    logOk) IN
       /\ tasks' = [tasks EXCEPT ![i].pc = c.x.outcome, ![i].rows = c.x.rows_returned]
       /\ queryLog' = c.log
    /\ UNCHANGED <<result_map, max_concurrent_queries, executor_workers>>
    /\ UNCHANGED <<allowed_datasets, xres, sideVars, cacheVars, serveVars, lineageVars>>

\* the loop over enumerate(queries): the entry of an id is written by the
\* last query that has it, [] (no rows) for a query whose result is an exception
BuildResultMap(ts) ==
    [q \in {ts[i].id : i \in 1..Len(ts)} |->
        LET last == CHOOSE i \in 1..Len(ts) :
                        ts[i].id = q /\ \A j \in 1..Len(ts) : ts[j].id = q => j <= i
        IN IF ts[last].pc = "raised" THEN 0 ELSE ts[last].rows]

\* gather without return_exceptions: the first exception is raised to the
\* caller at once, the other queries still running
BatchReturn_FirstException ==
    /\ tasks # <<>>
    /\ \/ \A i \in 1..Len(tasks) : tasks[i].pc \in {"returned", "raised"}
       \/ \E i \in 1..Len(tasks) : tasks[i].pc = "raised"
    /\ result_map' = IF \E i \in 1..Len(tasks) : tasks[i].pc = "raised"
                     THEN [raised |-> TRUE, entries |-> <<>>, queries |-> tasks]
                     ELSE [raised |-> FALSE, entries |-> BuildResultMap(tasks),
                           queries |-> tasks]
    /\ tasks' = <<>>
    /\ UNCHANGED <<max_concurrent_queries, executor_workers>>
    /\ UNCHANGED <<allowed_datasets, xres, queryLog, sideVars, cacheVars, serveVars, lineageVars>>

\* gather(return_exceptions=True) is complete and result_map is returned;
\* queries records the batch and how each of its queries ended
BatchReturn ==
    /\ tasks # <<>>
    /\ \A i \in 1..Len(tasks) : tasks[i].pc \in {"returned", "raised"}
    /\ result_map' = [raised |-> FALSE, entries |-> BuildResultMap(tasks),
                      queries |-> tasks]
    /\ tasks' = <<>>
    /\ UNCHANGED <<max_concurrent_queries, executor_workers>>
    /\ UNCHANGED <<allowed_datasets, xres, queryLog, sideVars, cacheVars, serveVars, lineageVars>>

----------------------------------------------------------------------------
(* Cache-first data serving and precompute *)

MaxVersion == 2     \* Dashboard.version is followed up to this value
MaxAccess == 2      \* Dashboard.access_count is followed up to this value

NoVersion == 0      \* no dashboards row for the slug
NoTime == -1        \* a timestamp column that is NULL

\* settings.cache_default_ttl; the same setting is InMemoryCache.default_ttl
cache_default_ttl == DefaultTtl

ServeNote == "TODO: Implement query execution via StorageService + CompilerService + SQLExecutorService"
PrecomputeNote == "TODO: Implement full precompute pipeline"

NoPayload == [computed_at |-> NoTime, charts |-> <<>>, query_count |-> 0, note |-> ""]

\* computed_data of serve_dashboard_data
computed_data(t) ==
    [computed_at |-> t, charts |-> <<>>, query_count |-> 0, note |-> ServeNote]

\* computed_data of precompute_dashboard
precomputed_data(t) ==
    [computed_at |-> t, charts |-> <<>>, query_count |-> 0, note |-> PrecomputeNote]

\* variant: the cache is never consulted
CheckCache_NeverHit(c, key, t, force) == [cache |-> c, hit |-> FALSE, value |-> <<>>]

\* cache check of serve_dashboard_data: skipped on force_refresh; a hit is a
\* truthy cached value
CheckCache(c, key, t, force) ==
    IF force THEN [cache |-> c, hit |-> FALSE, value |-> <<>>]
    ELSE LET g == CacheGet(c, key, t) IN
         [cache |-> g.cache, hit |-> g.value # <<>>, value |-> g.value]

\* a dashboards row: the columns these services read back.  last_accessed and
\* updated_at are written (utcnow) but never read by serve or precompute and
\* are not followed.
NoRow == [version |-> NoVersion, access_count |-> 0]
NewRow == [NoRow EXCEPT !.version = 1]

NoReq == [pc |-> "idle", slug |-> <<>>, force |-> FALSE, version |-> NoVersion]

FollowedSlug == SlugA

NoFirst == [valid |-> FALSE, version |-> NoVersion, data |-> NoPayload,
            as_of |-> NoTime, at |-> NoTime, sole |-> TRUE, latest |-> NoPayload]

NoEpoch == [cachedOld |-> FALSE, served |-> FALSE]

NoWarm == [valid |-> FALSE, version |-> NoVersion, as_of |-> NoTime,
          sole |-> TRUE, latest |-> NoTime]

NoResp == [op |-> "none", slug |-> <<>>, status |-> "", version |-> NoVersion,
           data |-> NoPayload, cache_hit |-> FALSE, as_of |-> NoTime,
           force |-> FALSE, count |-> 0, at |-> NoTime, keyCached |-> FALSE,
           srcVersion |-> NoVersion, prior |-> NoFirst, afterIncr |-> FALSE,
           firstAfterIncr |-> FALSE, warm |-> NoWarm,
           backend |-> "", upGet |-> TRUE, upSet |-> TRUE, setResult |-> <<>>]

\* the key holds an unexpired entry
Cached(c, key, t) == \E i \in 1..Len(c) : c[i].key = key /\ ~_is_expired(c[i].expiry, t)

\* history of writers, kept for the keys still in the cache
Written(wv, c2, key, version) ==
    [k \in CacheKeys(c2) |-> IF k = key THEN version ELSE wv[k]]

Surviving(wv, c2) == [k \in CacheKeys(c2) |-> wv[k]]

\* the followed first serve is forgotten once its key left the cache; when
\* another writer stores the key again it is marked and the payload noted
FirstAfter(f, c2, key, data) ==
    IF ~f.valid \/ DataKey(FollowedSlug, f.version) \notin CacheKeys(c2) THEN NoFirst
    ELSE IF key = DataKey(FollowedSlug, f.version)
         THEN [f EXCEPT !.sole = FALSE, !.latest = data]
    ELSE f

\* the followed precompute is forgotten once its key left the cache; when
\* another writer stores the key again it is marked and the new timestamp noted
WarmAfter(p, c2, key, data) ==
    IF ~p.valid \/ DataKey(FollowedSlug, p.version) \notin CacheKeys(c2) THEN NoWarm
    ELSE IF key = DataKey(FollowedSlug, p.version)
         THEN [p EXCEPT !.sole = FALSE, !.latest = data.computed_at]
    ELSE p

\* _get_dashboard finds no row: DashboardNotFoundException
ServeNotFound(slug) ==
    /\ sreq.pc = "idle"
    /\ dashboards[slug].version = NoVersion
    /\ resp' = [NoResp EXCEPT !.op = "serve", !.slug = slug,
                              !.status = "DashboardNotFoundException", !.at = now]
    /\ UNCHANGED <<dashboards, sreq, preq, writtenVer, first, epoch, warm>>
    /\ UNCHANGED <<cacheVars, execVars, lineageVars>>

\* serve_dashboard_data up to the loaded dashboards row
ServeLoad(slug, force) ==
    /\ sreq.pc = "idle"
    /\ dashboards[slug].version # NoVersion
    /\ dashboards[slug].access_count < MaxAccess
    /\ sreq' = [pc |-> "loaded", slug |-> slug, force |-> force,
                version |-> dashboards[slug].version]
    /\ resp' = NoResp
    /\ UNCHANGED <<dashboards, preq, writtenVer, first, epoch, warm>>
    /\ UNCHANGED <<cacheVars, execVars, lineageVars>>

\* serve_dashboard_data from the cache check to the return
ServeFinish ==
    /\ sreq.pc = "loaded"
    /\ LET slug == sreq.slug
           cache_key == DataKey(slug, sreq.version)
           chk == CheckCache(cache, cache_key, now, sreq.force)
           data == IF chk.hit THEN chk.value[1] ELSE computed_data(now)
           c2 == IF chk.hit THEN chk.cache
                 ELSE CacheSet(chk.cache, cache_key, data, cache_default_ttl, now)
           followed == slug = FollowedSlug
           current == sreq.version = dashboards[slug].version
           r == [NoResp EXCEPT
                   !.op = "serve", !.slug = slug, !.status = "ok",
                   !.version = sreq.version, !.data = data, !.cache_hit = chk.hit,
                   !.as_of = data.computed_at, !.force = sreq.force, !.at = now,
                   !.keyCached = Cached(cache, cache_key, now),
                   !.srcVersion = IF chk.hit THEN writtenVer[cache_key]
                                  ELSE sreq.version,
                   !.prior = IF followed THEN first ELSE NoFirst,
                   !.afterIncr = followed /\ current /\ epoch.cachedOld,
                   !.firstAfterIncr = followed /\ current /\ epoch.cachedOld
                                      /\ ~epoch.served,
                   !.warm = IF followed THEN warm ELSE NoWarm]
       IN /\ cache' = c2
          /\ resp' = r
          /\ dashboards' = [dashboards EXCEPT ![slug].access_count = @ + 1]
          /\ writtenVer' = IF chk.hit THEN Surviving(writtenVer, c2)
                           ELSE Written(writtenVer, c2, cache_key, sreq.version)
          /\ first' = IF followed /\ ~sreq.force /\ ~chk.hit
                      THEN [valid |-> TRUE, version |-> sreq.version, data |-> data,
                            as_of |-> data.computed_at, at |-> now, sole |-> TRUE,
                            latest |-> data]
                      ELSE FirstAfter(first, c2, IF chk.hit THEN <<>> ELSE cache_key,
                                      data)
          /\ epoch' = IF followed /\ current THEN [epoch EXCEPT !.served = TRUE]
                      ELSE epoch
          /\ warm' = WarmAfter(warm, c2, IF chk.hit THEN <<>> ELSE cache_key, data)
    /\ sreq' = NoReq
    /\ UNCHANGED <<now, cret, accOrder, lastSet, preq>>
    /\ UNCHANGED <<execVars, lineageVars>>

\* serve_dashboard_data from the cache check to the return, with RedisCache
\* as the cache; upGet and upSet tell whether the server answers the GET and
\* the SETEX.  An exception that leaves the cache call fails the request.
ServeFinishRedis(upGet, upSet) ==
    /\ sreq.pc = "loaded"
    /\ LET slug == sreq.slug
           cache_key == DataKey(slug, sreq.version)
           g == IF sreq.force THEN [store |-> redis, value |-> <<>>, raised |-> FALSE]
                ELSE RedisCacheGet(redis, cache_key, now, upGet)
           hit == g.value # <<>>
           data == IF hit THEN g.value[1].items ELSE computed_data(now)
           w == IF hit \/ g.raised
                THEN [store |-> g.store, result |-> TRUE, raised |-> FALSE]
                ELSE RedisCacheSet(g.store, cache_key, PyDict(data), cache_default_ttl,
                                   now, upSet)
           failed == g.raised \/ w.raised
       IN /\ redis' = w.store
          /\ resp' = IF failed
                     THEN [NoResp EXCEPT !.op = "serve", !.slug = slug,
                                         !.status = "Exception", !.force = sreq.force,
                                         !.at = now, !.backend = "redis",
                                         !.upGet = upGet, !.upSet = upSet]
                     ELSE [NoResp EXCEPT
                             !.op = "serve", !.slug = slug, !.status = "ok",
                             !.version = sreq.version, !.data = data, !.cache_hit = hit,
                             !.as_of = data.computed_at, !.force = sreq.force,
                             !.at = now, !.backend = "redis",
                             !.keyCached = \E e \in RedisLive(redis, now) : e.key = cache_key,
                             !.upGet = upGet, !.upSet = upSet,
                             !.setResult = IF hit THEN <<>> ELSE <<w.result>>]
          /\ dashboards' = IF failed THEN dashboards
                           ELSE [dashboards EXCEPT ![slug].access_count = @ + 1]
    /\ sreq' = NoReq
    /\ UNCHANGED <<preq, writtenVer, first, epoch, warm>>
    /\ UNCHANGED <<allowed_datasets, xres, queryLog, batchVars, bret, compileVars>>
    /\ UNCHANGED <<cacheVars, lineageVars>>

PrecomputeNotFound(slug) ==
    /\ preq.pc = "idle"
    /\ dashboards[slug].version = NoVersion
    /\ resp' = [NoResp EXCEPT !.op = "precompute", !.slug = slug,
                              !.status = "DashboardNotFoundException", !.at = now]
    /\ UNCHANGED <<dashboards, sreq, preq, writtenVer, first, epoch, warm>>
    /\ UNCHANGED <<cacheVars, execVars, lineageVars>>

\* precompute_dashboard up to the loaded dashboards row
PrecomputeLoad(slug) ==
    /\ preq.pc = "idle"
    /\ dashboards[slug].version # NoVersion
    /\ preq' = [pc |-> "loaded", slug |-> slug, force |-> TRUE,
                version |-> dashboards[slug].version]
    /\ resp' = NoResp
    /\ UNCHANGED <<dashboards, sreq, writtenVer, first, epoch, warm>>
    /\ UNCHANGED <<cacheVars, execVars, lineageVars>>

\* precompute_dashboard from the placeholder computation to the return
PrecomputeFinish ==
    /\ preq.pc = "loaded"
    /\ LET slug == preq.slug
           cache_key == DataKey(slug, preq.version)
           data == precomputed_data(now)
           c2 == CacheSet(cache, cache_key, data, cache_default_ttl, now)
       IN /\ cache' = c2
          /\ resp' = [NoResp EXCEPT
                        !.op = "precompute", !.slug = slug, !.status = "success",
                        !.version = preq.version, !.as_of = data.computed_at,
                        !.at = now, !.keyCached = Cached(cache, cache_key, now)]
          /\ writtenVer' = Written(writtenVer, c2, cache_key, preq.version)
          /\ first' = FirstAfter(first, c2, cache_key, data)
          /\ warm' = IF slug = FollowedSlug /\ cache_key \in CacheKeys(c2)
                    THEN [valid |-> TRUE, version |-> preq.version,
                          as_of |-> data.computed_at, sole |-> TRUE,
                          latest |-> data.computed_at]
                    ELSE WarmAfter(warm, c2, <<>>, data)
    /\ preq' = NoReq
    /\ UNCHANGED <<now, cret, accOrder, lastSet, dashboards, sreq, epoch>>
    /\ UNCHANGED <<execVars, lineageVars>>

\* invalidate_dashboard_cache
InvalidateDashboardCache(slug) ==
    /\ LET pattern == StrDashboard \o slug \o <<":", "*">>
           r == CacheInvalidatePattern(cache, pattern)
       IN /\ cache' = r.cache
          /\ resp' = [NoResp EXCEPT !.op = "invalidate", !.slug = slug,
                                    !.status = "ok", !.count = r.count, !.at = now]
          /\ writtenVer' = Surviving(writtenVer, r.cache)
          /\ first' = FirstAfter(first, r.cache, <<>>, NoPayload)
          /\ warm' = WarmAfter(warm, r.cache, <<>>, NoPayload)
    /\ UNCHANGED <<now, cret, accOrder, lastSet, dashboards, sreq, preq, epoch>>
    /\ UNCHANGED <<execVars, lineageVars>>

\* the dashboards row gets the next version
IncrementVersion(slug) ==
    /\ dashboards[slug].version # NoVersion
    /\ dashboards[slug].version < MaxVersion
    /\ dashboards' = [dashboards EXCEPT ![slug].version = @ + 1]
    /\ epoch' = IF slug = FollowedSlug
                THEN [cachedOld |-> Cached(cache, DataKey(slug, dashboards[slug].version), now),
                      served |-> FALSE]
                ELSE epoch
    /\ resp' = NoResp
    /\ UNCHANGED <<sreq, preq, writtenVer, first, warm>>
    /\ UNCHANGED <<cacheVars, execVars, lineageVars>>

ServeTick ==
    /\ now < MaxTime
    /\ now' = now + 1
    /\ resp' = NoResp
    /\ UNCHANGED <<cache, cret, accOrder, lastSet>>
    /\ UNCHANGED <<dashboards, sreq, preq, writtenVer, first, epoch, warm>>
    /\ UNCHANGED <<execVars, lineageVars>>

----------------------------------------------------------------------------
(* Lineage store *)

MaxRebuilds == 2    \* build_lineage_for_dashboard calls followed per slug

\* settings.lineage_cache_ttl (3600), shorter than the cache default (86400)
lineage_cache_ttl == 1

StrChart == <<":", "c", "h", "a", "r", "t", ":">>
StrQuery == <<":", "q", "u", "e", "r", "y", ":">>
StrColon == <<":">>

IdC1 == <<"c", "1">>
IdC2 == <<"c", "2">>
IdQ1 == <<"q", "1">>
IdQ2 == <<"q", "2">>
TableT1 == <<"p", ".", "d", ".", "t", "1">>

\* validated dashboard definitions: layout items name a query, a query names
\* the tables _extract_table_references finds in its SQL
NoDef == [slug |-> <<>>, name |-> "", layout |-> <<>>, queries |-> <<>>]

DefA1 == [slug |-> SlugA, name |-> "Revenue",
          layout |-> <<[id |-> IdC1, query_ref |-> IdQ1, title |-> "Total"]>>,
          queries |-> <<[id |-> IdQ1, sql |-> "s1", tables |-> <<TableT1>>]>>]

DefA2 == [slug |-> SlugA, name |-> "Revenue",
          layout |-> <<[id |-> IdC2, query_ref |-> IdQ2, title |-> "Total"]>>,
          queries |-> <<[id |-> IdQ2, sql |-> "s1", tables |-> <<TableT1>>]>>]

DefA3 == [slug |-> SlugA, name |-> "Revenue by day",
          layout |-> <<[id |-> IdC1, query_ref |-> IdQ1, title |-> "Total"],
                       [id |-> IdC2, query_ref |-> IdQ1, title |-> "Daily"]>>,
          queries |-> <<[id |-> IdQ1, sql |-> "s1", tables |-> <<TableT1>>]>>]

DefB1 == [slug |-> SlugB, name |-> "Ops",
          layout |-> <<[id |-> IdC1, query_ref |-> IdQ1, title |-> "Load"]>>,
          queries |-> <<[id |-> IdQ1, sql |-> "s2", tables |-> <<TableT1>>]>>]

Definitions == {DefA1, DefA2, DefA3, DefB1}

TableT2 == <<"p", ".", "d", ".", "t", "2">>

\* later definitions of the first dashboard: its chart moves to another query
\* that reads another table; its query reads another table; and a definition
\* with a second query no chart uses
DefA4 == [slug |-> SlugA, name |-> "Revenue",
          layout |-> <<[id |-> IdC1, query_ref |-> IdQ2, title |-> "Total"]>>,
          queries |-> <<[id |-> IdQ2, sql |-> "s3", tables |-> <<TableT2>>]>>]

DefA5 == [slug |-> SlugA, name |-> "Revenue",
          layout |-> <<[id |-> IdC1, query_ref |-> IdQ1, title |-> "Total"]>>,
          queries |-> <<[id |-> IdQ1, sql |-> "s4", tables |-> <<TableT2>>]>>]

DefB2 == [slug |-> SlugB, name |-> "Ops",
          layout |-> <<[id |-> IdC1, query_ref |-> IdQ1, title |-> "Load"]>>,
          queries |-> <<[id |-> IdQ1, sql |-> "s2", tables |-> <<>>],
                        [id |-> IdQ2, sql |-> "s5", tables |-> <<TableT2>>]>>]

ImpactDefinitions == {DefA1, DefA4, DefA5, DefB1, DefB2}

RECURSIVE Flatten(_)
Flatten(ss) == IF ss = <<>> THEN <<>> ELSE Head(ss) \o Flatten(Tail(ss))

\* DashboardCompilerService._build_lineage_seeds
_build_lineage_seeds(d) ==
    LET slug == d.slug
        chart_id(item) == slug \o StrChart \o item.id
        query_id(q) == slug \o StrQuery \o q.id
        queryNodes(q) ==
            <<[node_type |-> "query", node_id |-> query_id(q), metadata |-> PyDict([sql_preview |-> q.sql])]>>
            \o [j \in 1..Len(q.tables) |->
                   [node_type |-> "table", node_id |-> q.tables[j],
                    metadata |-> PyDict([table_name |-> q.tables[j]])]]
        using(q) == SelectSeq(d.layout, LAMBDA item : item.query_ref = q.id)
        queryEdges(q) ==
            [j \in 1..Len(using(q)) |->
                [source_node_id |-> chart_id(using(q)[j]),
                 target_node_id |-> query_id(q), edge_type |-> "executes"]]
            \o [j \in 1..Len(q.tables) |->
                   [source_node_id |-> query_id(q), target_node_id |-> q.tables[j],
                    edge_type |-> "reads_from"]]
    IN [nodes |->
            <<[node_type |-> "dashboard", node_id |-> slug, metadata |-> PyDict([name |-> d.name])]>>
            \o [i \in 1..Len(d.layout) |->
                   [node_type |-> "chart", node_id |-> chart_id(d.layout[i]),
                    metadata |-> PyDict([title |-> d.layout[i].title])]]
            \o Flatten([i \in 1..Len(d.queries) |-> queryNodes(d.queries[i])]),
        edges |->
            [i \in 1..Len(d.layout) |->
                [source_node_id |-> slug, target_node_id |-> chart_id(d.layout[i]),
                 edge_type |-> "contains"]]
            \o Flatten([i \in 1..Len(d.queries) |-> queryEdges(d.queries[i])])]

SeedsOf == [d \in Definitions \cup ImpactDefinitions |-> _build_lineage_seeds(d)]

\* primary key of a lineage_nodes row: a dashboard node is deleted and inserted
\* again by every rebuild, and gets a new key each time
Uuid(node_id, gen) == <<node_id, gen>>

\* _clear_dashboard_lineage: deletes the dashboard node; the cascade removes the
\* edges that start or end at it
_clear_dashboard_lineage(ns, es, slug) ==
    LET dn == {n \in ns : n.node_type = "dashboard" /\ n.node_id = slug}
        gone == {n.id : n \in dn}
    IN [nodes |-> ns \ dn,
        edges |-> {e \in es : e.source \notin gone /\ e.target \notin gone}]

\* _create_or_update_node: [nodes |-> rows after the call, id |-> key of the row]
_create_or_update_node(ns, node_type, node_id, metadata, gen) ==
    LET found == {n \in ns : n.node_type = node_type /\ n.node_id = node_id} IN
    IF found # {}
    THEN LET old == CHOOSE n \in found : TRUE IN
         [nodes |-> (ns \ {old}) \cup {[old EXCEPT !.metadata = metadata]},
          id |-> old.id]
    ELSE LET id == Uuid(node_id, IF node_type = "dashboard" THEN gen ELSE 0) IN
         [nodes |-> ns \cup {[id |-> id, node_type |-> node_type, node_id |-> node_id,
                              metadata |-> metadata]},
          id |-> id]

\* the node loop of build_lineage_for_dashboard: [nodes, node_map]
RECURSIVE CreateNodes(_, _, _, _, _)
CreateNodes(ns, seeds, i, node_map, gen) ==
    IF i > Len(seeds) THEN [nodes |-> ns, node_map |-> node_map]
    ELSE LET r == _create_or_update_node(ns, seeds[i].node_type, seeds[i].node_id,
                                         seeds[i].metadata, gen)
         IN CreateNodes(r.nodes, seeds, i + 1,
                        (seeds[i].node_id :> r.id) @@ node_map, gen)

\* the edge loop of build_lineage_for_dashboard; _create_edge inserts and
\* flushes, and uq_lineage_edge rejects a second row with the same source,
\* target and type: [ok, edges, created]
RECURSIVE CreateEdges(_, _, _, _, _)
CreateEdges(es, seeds, i, node_map, created) ==
    IF i > Len(seeds) THEN [ok |-> TRUE, edges |-> es, created |-> created]
    ELSE IF seeds[i].source_node_id \notin DOMAIN node_map
            \/ seeds[i].target_node_id \notin DOMAIN node_map
         THEN CreateEdges(es, seeds, i + 1, node_map, created)
    ELSE LET e == [source |-> node_map[seeds[i].source_node_id],
                   target |-> node_map[seeds[i].target_node_id],
                   edge_type |-> seeds[i].edge_type]
         IN IF e \in es THEN [ok |-> FALSE, edges |-> es, created |-> created]
            ELSE CreateEdges(es \cup {e}, seeds, i + 1, node_map, created + 1)

\* _get_dashboard_nodes, second statement: node_id = slug OR node_id LIKE 'slug:%'
ScopedNodes(ns, slug) ==
    {n \in ns : n.node_id = slug \/ StartsWith(n.node_id, slug \o StrColon)}

\* _get_edges_for_nodes
_get_edges_for_nodes(es, node_ids) ==
    {e \in es : e.source \in node_ids \/ e.target \in node_ids}

NoTx == [pc |-> "idle", slug |-> <<>>, def |-> NoDef, nodes |-> {}, edges |-> {},
         nodes_created |-> 0, edges_created |-> 0]

NoGraph == [nodes |-> {}, edges |-> {}]

NoGreq == [pc |-> "idle", slug |-> <<>>, found |-> FALSE, nodes |-> {},
           allowed |-> {}]

NoGresp == [op |-> "none", slug |-> <<>>, status |-> "", cached |-> FALSE,
            graph |-> NoGraph, allowed |-> {}, nodes_created |-> 0,
            edges_created |-> 0, table_name |-> <<>>, items |-> {}]

NoLineage == [cur |-> NoDef, prev |-> NoDef]

\* a rebuild commit during a read adds its definition to what the read may see
Overlapped(g, slug, d) ==
    IF g.pc # "idle" /\ g.slug = slug THEN [g EXCEPT !.allowed = @ \cup {d}] ELSE g

\* build_lineage_for_dashboard up to db.flush(): clear, node loop, edge loop,
\* all inside the request's session
RebuildWrite(slug, d) ==
    /\ tx.pc = "idle"
    /\ d.slug = slug
    /\ rebuilds[slug] < MaxRebuilds
    /\ LET gen == rebuilds[slug] + 1
           seeds == SeedsOf[d]
           cl == _clear_dashboard_lineage(lnodes, ledges, slug)
           cn == CreateNodes(cl.nodes, seeds.nodes, 1, <<>>, gen)
           ce == CreateEdges(cl.edges, seeds.edges, 1, cn.node_map, 0)
       IN tx' = [pc |-> IF ce.ok THEN "flushed" ELSE "failed", slug |-> slug,
                 def |-> d, nodes |-> cn.nodes, edges |-> ce.edges,
                 nodes_created |-> Len(seeds.nodes), edges_created |-> ce.created]
    /\ rebuilds' = [rebuilds EXCEPT ![slug] = @ + 1]
    /\ gresp' = NoGresp
    /\ UNCHANGED <<lnodes, ledges, greq, lineage>>
    /\ UNCHANGED <<cacheVars, execVars, serveVars>>

\* build_lineage_for_dashboard: cache.delete(lineage key), then return
RebuildInvalidate ==
    /\ tx.pc = "flushed"
    /\ cache' = CacheDelete(cache, build_lineage_cache_key(tx.slug)).cache
    /\ tx' = [tx EXCEPT !.pc = "returned"]
    /\ gresp' = [NoGresp EXCEPT !.op = "rebuild", !.slug = tx.slug, !.status = "ok",
                                !.nodes_created = tx.nodes_created,
                                !.edges_created = tx.edges_created]
    /\ UNCHANGED <<lnodes, ledges, rebuilds, greq, lineage>>
    /\ UNCHANGED <<now, cret, accOrder, lastSet>>
    /\ UNCHANGED <<execVars, serveVars>>

\* get_db: session.commit() after the handler returned
RebuildCommit ==
    /\ tx.pc = "returned"
    /\ lnodes' = tx.nodes
    /\ ledges' = tx.edges
    /\ lineage' = [lineage EXCEPT ![tx.slug] = [cur |-> tx.def, prev |-> @.cur]]
    /\ greq' = Overlapped(greq, tx.slug, tx.def)
    /\ tx' = NoTx
    /\ gresp' = NoGresp
    /\ UNCHANGED rebuilds
    /\ UNCHANGED <<cacheVars, execVars, serveVars>>

\* get_db: the IntegrityError leaves the handler, session.rollback()
RebuildRollback ==
    /\ tx.pc = "failed"
    /\ tx' = NoTx
    /\ gresp' = [NoGresp EXCEPT !.op = "rebuild", !.slug = tx.slug,
                                !.status = "IntegrityError"]
    /\ UNCHANGED <<lnodes, ledges, rebuilds, greq, lineage>>
    /\ UNCHANGED <<cacheVars, execVars, serveVars>>

\* get_lineage_graph: cache check, then _verify_dashboard_exists
GraphStart(slug) ==
    /\ greq.pc = "idle"
    /\ LET g == CacheGet(cache, build_lineage_cache_key(slug), now) IN
       /\ cache' = g.cache
       /\ IF g.value # <<>>
          THEN /\ gresp' = [NoGresp EXCEPT !.op = "graph", !.slug = slug,
                                           !.status = "ok", !.cached = TRUE,
                                           !.graph = g.value[1]]
               /\ greq' = NoGreq
          ELSE IF dashboards[slug].version = NoVersion
          THEN /\ gresp' = [NoGresp EXCEPT !.op = "graph", !.slug = slug,
                                           !.status = "DashboardNotFoundException"]
               /\ greq' = NoGreq
          ELSE /\ gresp' = NoGresp
               /\ greq' = [NoGreq EXCEPT !.pc = "verified", !.slug = slug,
                                         !.allowed = {lineage[slug].cur}]
    /\ UNCHANGED <<lnodes, ledges, rebuilds, tx, lineage>>
    /\ UNCHANGED <<now, cret, accOrder, lastSet>>
    /\ UNCHANGED <<execVars, serveVars>>

\* _get_dashboard_nodes, first statement: is there a dashboard node for the slug
GraphFindDashboard ==
    /\ greq.pc = "verified"
    /\ greq' = [greq EXCEPT !.pc = "found",
                            !.found = \E n \in lnodes : /\ n.node_type = "dashboard"
                                                        /\ n.node_id = greq.slug]
    /\ gresp' = NoGresp
    /\ UNCHANGED <<lnodes, ledges, rebuilds, tx, lineage>>
    /\ UNCHANGED <<cacheVars, execVars, serveVars>>

\* _get_dashboard_nodes, second statement
GraphNodes ==
    /\ greq.pc = "found"
    /\ greq' = [greq EXCEPT !.pc = "nodes",
                            !.nodes = IF greq.found THEN ScopedNodes(lnodes, greq.slug)
                                      ELSE {}]
    /\ gresp' = NoGresp
    /\ UNCHANGED <<lnodes, ledges, rebuilds, tx, lineage>>
    /\ UNCHANGED <<cacheVars, execVars, serveVars>>

\* get_lineage_graph from _get_edges_for_nodes to the return
GraphEdges ==
    /\ greq.pc = "nodes"
    /\ LET node_ids == {n.id : n \in greq.nodes}
           edges == IF node_ids = {} THEN {} ELSE _get_edges_for_nodes(ledges, node_ids)
           lineage_graph == [nodes |-> greq.nodes, edges |-> edges]
       IN /\ cache' = CacheSet(cache, build_lineage_cache_key(greq.slug), lineage_graph,
                               lineage_cache_ttl, now)
          /\ gresp' = [NoGresp EXCEPT !.op = "graph", !.slug = greq.slug,
                                      !.status = "ok", !.graph = lineage_graph,
                                      !.allowed = greq.allowed]
    /\ greq' = NoGreq
    /\ UNCHANGED <<lnodes, ledges, rebuilds, tx, lineage>>
    /\ UNCHANGED <<now, cret, accOrder, lastSet>>
    /\ UNCHANGED <<execVars, serveVars>>

\* _get_dashboard_nodes: no dashboard node, no nodes; else the nodes whose
\* node_id is the slug or starts with 'slug:'
_get_dashboard_nodes(ns, slug) ==
    IF \E n \in ns : n.node_type = "dashboard" /\ n.node_id = slug
    THEN ScopedNodes(ns, slug)
    ELSE {}

\* get_upstream_tables: the node_id of the table nodes among the dashboard's
\* nodes
get_upstream_tables(ns, slug) ==
    LET nodes == _get_dashboard_nodes(ns, slug)
        table_nodes == {n \in nodes : n.node_type = "table"}
    IN {n.node_id : n \in table_nodes}

\* get_downstream_dashboards: from the table node along reads_from, executes
\* and contains edges, against their direction, to dashboard nodes
get_downstream_dashboards(ns, es, table_name) ==
    LET table_nodes == {n \in ns : n.node_type = "table" /\ n.node_id = table_name}
        query_node_ids ==
            {e.source : e \in {x \in es : /\ \E t \in table_nodes : x.target = t.id
                                          /\ x.edge_type = "reads_from"}}
        chart_node_ids ==
            {e.source : e \in {x \in es : /\ x.target \in query_node_ids
                                          /\ x.edge_type = "executes"}}
        dashboard_node_ids ==
            {e.source : e \in {x \in es : /\ x.target \in chart_node_ids
                                          /\ x.edge_type = "contains"}}
        dashboard_nodes ==
            {n \in ns : n.id \in dashboard_node_ids /\ n.node_type = "dashboard"}
    IN IF table_nodes = {} \/ query_node_ids = {} \/ chart_node_ids = {}
       THEN {}
       ELSE {n.node_id : n \in dashboard_nodes}

\* get_upstream_tables, reading the committed rows
UpstreamTables(slug) ==
    /\ gresp' = [NoGresp EXCEPT !.op = "upstream", !.slug = slug, !.status = "ok",
                                !.items = get_upstream_tables(lnodes, slug)]
    /\ UNCHANGED <<lnodes, ledges, rebuilds, tx, greq, lineage>>
    /\ UNCHANGED <<cacheVars, execVars, serveVars>>

\* get_downstream_dashboards, reading the committed rows
DownstreamDashboards(table_name) ==
    /\ gresp' = [NoGresp EXCEPT !.op = "downstream", !.table_name = table_name,
                                !.status = "ok",
                                !.items = get_downstream_dashboards(lnodes, ledges,
                                                                    table_name)]
    /\ UNCHANGED <<lnodes, ledges, rebuilds, tx, greq, lineage>>
    /\ UNCHANGED <<cacheVars, execVars, serveVars>>

LineageTick ==
    /\ now < MaxTime
    /\ now' = now + 1
    /\ gresp' = NoGresp
    /\ UNCHANGED <<cache, cret, accOrder, lastSet>>
    /\ UNCHANGED <<lnodes, ledges, rebuilds, tx, greq, lineage>>
    /\ UNCHANGED <<execVars, serveVars>>

----------------------------------------------------------------------------
(* Dashboard definitions and their compilation *)

MaxLayout == 2      \* layout items of a posted definition
MaxQueries == 2     \* queries of a posted definition

IdDigit == <<"1", "2", "3", "4">>
ChartIds == {<<"c", IdDigit[i]>> : i \in 1..MaxLayout}
QueryIds == {<<"q", IdDigit[i]>> : i \in 1..MaxQueries}
TableRefs == {<<>>, <<TableT1>>}

AllTables == {TableT1, TableT2}

\* str hashes are salted per process, and the API runs api_workers processes:
\* a process is known here by the order in which its sets of str iterate
HashSeeds == {<<TableT1, TableT2>>, <<TableT2, TableT1>>}

\* DashboardCompilerService._extract_table_references: list(set(matches)),
\* matches being the table names the pattern finds in the SQL, in text order
_extract_table_references(matches, hash_seed) ==
    SelectSeq(hash_seed, LAMBDA t : \E i \in 1..Len(matches) : matches[i] = t)

\* the definition with every query's table references extracted
Extracted(d, hash_seed) ==
    [d EXCEPT !.queries =
        [i \in 1..Len(d.queries) |->
            [d.queries[i] EXCEPT !.tables = _extract_table_references(@, hash_seed)]]]

\* GridPosition: 12 columns
GridColumns == 12

\* the i-th chart id sits in its own three columns of the first row
SlotOf(i) == [x |-> 3 * (i - 1), y |-> 0, w |-> 3, h |-> 1]

LayoutItems ==
    {[id |-> <<"c", IdDigit[i]>>, query_ref |-> q, title |-> "Total",
      position |-> SlotOf(i)] : i \in 1..MaxLayout, q \in QueryIds}
QueryItems ==
    {[id |-> q, sql |-> "s1", tables |-> t] : q \in QueryIds, t \in TableRefs}

SeqsUpTo(S, n) == UNION {[1..k -> S] : k \in 0..n}

\* documents a client may post: ids may repeat, a query_ref may name no query,
\* either list may be empty
Posted ==
    {[slug |-> SlugA, name |-> "Revenue", layout |-> l, queries |-> q] :
        l \in SeqsUpTo(LayoutItems, MaxLayout), q \in SeqsUpTo(QueryItems, MaxQueries)}

\* DashboardYAML.validate_query_refs
validate_query_refs(d) ==
    \A i \in 1..Len(d.layout) :
        \E j \in 1..Len(d.queries) : d.queries[j].id = d.layout[i].query_ref

\* DashboardYAML.validate_chart_ids_unique
validate_chart_ids_unique(d) ==
    \A i, j \in 1..Len(d.layout) : d.layout[i].id = d.layout[j].id => i = j

\* DashboardYAML.validate_query_ids_unique
validate_query_ids_unique(d) ==
    \A i, j \in 1..Len(d.queries) : d.queries[i].id = d.queries[j].id => i = j

\* GridPosition: the field constraints and validate_position
validate_position(p) ==
    /\ p.x >= 0 /\ p.x < GridColumns
    /\ p.y >= 0
    /\ p.w >= 1 /\ p.w <= GridColumns
    /\ p.h >= 1 /\ p.h <= 20
    /\ p.x + p.w <= GridColumns

\* range(pos.x, pos.x + pos.w) x range(pos.y, pos.y + pos.h)
Cells(p) == {<<x, y>> : x \in p.x..(p.x + p.w - 1), y \in p.y..(p.y + p.h - 1)}

validate_grid_overlaps_FirstCellOnly(layout, i, positions) ==
    \A k \in 1..Len(layout) :
        \A j \in 1..(k - 1) :
            <<layout[k].position.x, layout[k].position.y>> \notin Cells(layout[j].position)

\* DashboardYAML.validate_grid_overlaps from item i on, positions holding the
\* cells of the items before it: FALSE when a cell of an item is already there
RECURSIVE validate_grid_overlaps(_, _, _)
validate_grid_overlaps(layout, i, positions) ==
    IF i > Len(layout) THEN TRUE
    ELSE IF Cells(layout[i].position) \cap positions # {} THEN FALSE
    ELSE validate_grid_overlaps(layout, i + 1, positions \cup Cells(layout[i].position))

\* DashboardYAML.model_validate: the fields first (min_length of both lists,
\* every GridPosition), then the model validators in the order of the class;
\* "" when the document is valid, else what rejected it
validation_error(d) ==
    IF Len(d.queries) < 1 \/ Len(d.layout) < 1 THEN "min_length"
    ELSE IF \E i \in 1..Len(d.layout) : ~validate_position(d.layout[i].position)
    THEN "validate_position"
    ELSE IF ~validate_query_refs(d) THEN "validate_query_refs"
    ELSE IF ~validate_chart_ids_unique(d) THEN "validate_chart_ids_unique"
    ELSE IF ~validate_query_ids_unique(d) THEN "validate_query_ids_unique"
    ELSE IF ~validate_grid_overlaps(d.layout, 1, {}) THEN "validate_grid_overlaps"
    ELSE ""

model_validate(d) == validation_error(d) = ""

_build_execution_plan_AllCharts(d) ==
    [dashboard_slug |-> d.slug,
     queries |->
        [i \in 1..Len(d.queries) |->
            [query_id |-> d.queries[i].id,
             dependent_charts |-> [j \in 1..Len(d.layout) |-> d.layout[j].id]]],
     charts |->
        [i \in 1..Len(d.layout) |->
            [chart_id |-> d.layout[i].id, query_ref |-> d.layout[i].query_ref]],
     total_queries |-> Len(d.queries),
     total_charts |-> Len(d.layout)]

\* DashboardCompilerService._build_execution_plan
_build_execution_plan(d) ==
    [dashboard_slug |-> d.slug,
     queries |->
        [i \in 1..Len(d.queries) |->
            [query_id |-> d.queries[i].id,
             dependent_charts |->
                LET using == SelectSeq(d.layout,
                                 LAMBDA item : item.query_ref = d.queries[i].id)
                IN [j \in 1..Len(using) |-> using[j].id]]],
     charts |->
        [i \in 1..Len(d.layout) |->
            [chart_id |-> d.layout[i].id, query_ref |-> d.layout[i].query_ref]],
     total_queries |-> Len(d.queries),
     total_charts |-> Len(d.layout)]

\* CompilationResult(...): lineage_nodes and lineage_edges are declared
\* List[Dict[str, str]], and pydantic raises ValidationError for a value that is
\* not a str.  node_type, node_id and every value of an edge are str; the
\* metadata of a node is whatever the seed builder put there.
CompilationResult(dashboard_slug, execution_plan, query_count, lineage_nodes, lineage_edges) ==
    [raised |-> \E i \in 1..Len(lineage_nodes) : lineage_nodes[i].metadata.type # "str",
     value |-> [dashboard_slug |-> dashboard_slug,
                execution_plan |-> execution_plan,
                query_count |-> query_count,
                lineage_nodes |-> lineage_nodes,
                lineage_edges |-> lineage_edges]]

\* DashboardCompilerService.compile_dashboard: the plan, the seeds and the
\* result are built inside one try; except Exception raises
\* CompilationException.  [raised, result, plan and seeds |-> what the two
\* builders returned inside the call]
compile_dashboard(d, hash_seed) ==
    LET execution_plan == _build_execution_plan(d)
        seeds == _build_lineage_seeds(Extracted(d, hash_seed))
        r == CompilationResult(d.slug, execution_plan, Len(d.queries),
                               seeds.nodes, seeds.edges)
    IN [raised |-> r.raised,
        result |-> IF r.raised THEN <<>> ELSE <<r.value>>,
        plan |-> execution_plan,
        seeds |-> seeds]

\* status 0: no response yet
NoCompiled ==
    [status |-> 0, error_code |-> "", errors |-> "", definition |-> NoDef,
     result |-> <<>>,
     plan |-> <<>>, seeds |-> <<>>, worker |-> <<>>, earlier |-> <<>>]

\* POST /dashboards/compile in the process of hash_seed: validate the posted
\* document, then compile what validation parsed; an invalid document and a
\* CompilationException are both answered 400
compile_endpoint(req, hash_seed) ==
    IF ~model_validate(req.definition)
    THEN [req EXCEPT !.status = 400, !.error_code = "INVALID_YAML",
                     !.errors = validation_error(req.definition),
                     !.worker = hash_seed]
    ELSE LET c == compile_dashboard(req.definition, hash_seed) IN
         IF c.raised
         THEN [req EXCEPT !.status = 400, !.error_code = "VALIDATION_ERROR",
                          !.plan = <<c.plan>>, !.seeds = <<c.seeds>>,
                          !.worker = hash_seed]
         ELSE [req EXCEPT !.status = 200, !.result = c.result,
                          !.plan = <<c.plan>>, !.seeds = <<c.seeds>>,
                          !.worker = hash_seed]

CompileDashboard(hash_seed) ==
    /\ compiled.status = 0
    /\ compiled.definition # NoDef
    /\ compiled' = compile_endpoint(compiled, hash_seed)
    /\ UNCHANGED <<allowed_datasets, xres, queryLog, batchVars, backendVars,
                   hashed, cacheVars, serveVars, lineageVars>>

\* the same document is posted a second time, to any process; the outcome of
\* the first call is kept in earlier
CompileAgain(hash_seed) ==
    /\ compiled.status # 0
    /\ compiled.earlier = <<>>
    /\ compiled' =
          [compile_endpoint([NoCompiled EXCEPT !.definition = compiled.definition],
                            hash_seed)
             EXCEPT !.earlier = <<compiled>>]
    /\ UNCHANGED <<allowed_datasets, xres, queryLog, batchVars, backendVars,
                   hashed, cacheVars, serveVars, lineageVars>>

----------------------------------------------------------------------------
(* Query hashes *)

\* characters str.split() treats as separators
Whitespace == {" ", "\t", "\n"}

\* str.lower(), character by character
LowerChar(ch) ==
    IF \E i \in 1..26 : UpperLetters[i] = ch
    THEN LowerLetters[CHOOSE i \in 1..26 : UpperLetters[i] = ch]
    ELSE ch

Lower(s) == [i \in 1..Len(s) |-> LowerChar(s[i])]

\* sql.split() from position i on, cur being the word in progress: the
\* maximal runs of characters that are not whitespace
RECURSIVE Split(_, _, _)
Split(s, i, cur) ==
    IF i > Len(s) THEN (IF cur = <<>> THEN <<>> ELSE <<cur>>)
    ELSE IF s[i] \in Whitespace
    THEN (IF cur = <<>> THEN <<>> ELSE <<cur>>) \o Split(s, i + 1, <<>>)
    ELSE Split(s, i + 1, Append(cur, s[i]))

\* " ".join(words)
RECURSIVE Join(_)
Join(words) ==
    IF words = <<>> THEN <<>>
    ELSE IF Len(words) = 1 THEN words[1]
    ELSE words[1] \o <<" ">> \o Join(Tail(words))

\* " ".join(sql.split()).lower()
Normalized(sql) == Lower(Join(Split(sql, 1, <<>>)))

\* hashlib.sha256(text).hexdigest(), cut to its first n characters: two
\* digests are equal exactly when the texts are (no collision is followed)
HexDigest(text, n) == [sha256 |-> text, chars |-> n]

\* DashboardCompilerService._hash_query
_hash_query(sql) == HexDigest(Normalized(sql), 16)

\* BigQueryClient.hash_query
hash_query(sql) == HexDigest(Normalized(sql), 64)

\* parts of a SQL text: identifiers in either case, a comma, and string
\* literals that differ in the whitespace or in the case inside the quotes
SqlParts == {<<"a">>, <<"A">>, <<"b">>, <<",">>, <<"'", " ", "'">>,
             <<"'", " ", " ", "'">>, <<"'", "a", "'">>, <<"'", "A", "'">>}

\* what stands between two parts
SqlGaps == {<<>>, <<" ">>, <<" ", " ">>, <<"\t">>, <<"\n", " ">>}

HashTexts == {p \o g \o q : p \in SqlParts, g \in SqlGaps, q \in SqlParts}

NoHashed == [done |-> FALSE, sql1 |-> <<>>, sql2 |-> <<>>, compiler |-> <<>>,
             client |-> <<>>]

\* both hash functions applied to both texts
HashQueries ==
    /\ ~hashed.done
    /\ hashed.sql1 # <<>>
    /\ hashed' = [hashed EXCEPT !.done = TRUE,
                                !.compiler = <<_hash_query(hashed.sql1),
                                               _hash_query(hashed.sql2)>>,
                                !.client = <<hash_query(hashed.sql1),
                                             hash_query(hashed.sql2)>>]
    /\ UNCHANGED <<allowed_datasets, xres, queryLog, batchVars, backendVars,
                   compiled, cacheVars, serveVars, lineageVars>>

----------------------------------------------------------------------------
(* Specifications *)

CacheIdle ==
    /\ now = 0
    /\ cache = <<>>
    /\ cret = NoRet
    /\ accOrder = <<>>
    /\ lastSet = NoSet

BackendIdle ==
    /\ redis = {}
    /\ bret = NoBret

SideIdle ==
    /\ BackendIdle
    /\ compiled = NoCompiled
    /\ hashed = NoHashed

BatchIdle ==
    /\ tasks = <<>>
    /\ result_map = NoResult
    /\ max_concurrent_queries = MaxConcurrent
    /\ executor_workers = MaxWorkers

ExecIdle ==
    /\ allowed_datasets = <<>>
    /\ xres = [mode |-> "none"]
    /\ queryLog = <<>>
    /\ BatchIdle
    /\ SideIdle

ServeIdle ==
    /\ dashboards = [s \in Slugs |-> NewRow]
    /\ sreq = NoReq
    /\ preq = NoReq
    /\ resp = NoResp
    /\ writtenVer = [k \in {} |-> NoVersion]
    /\ first = NoFirst
    /\ epoch = NoEpoch
    /\ warm = NoWarm

LineageIdle ==
    /\ lnodes = {}
    /\ ledges = {}
    /\ rebuilds = [s \in Slugs |-> 0]
    /\ tx = NoTx
    /\ greq = NoGreq
    /\ gresp = NoGresp
    /\ lineage = [s \in Slugs |-> NoLineage]

CacheInit ==
    /\ CacheIdle
    /\ ExecIdle
    /\ ServeIdle
    /\ LineageIdle

CacheNext ==
    \/ \E k \in Keys : Get(k)
    \/ \E k \in Keys : Exists(k)
    \/ \E k \in Keys, v \in Values, ttl \in Ttls : Set(k, v, ttl)
    \/ \E k \in Keys : Delete(k)
    \/ \E p \in Patterns : InvalidatePattern(p)
    \/ Clear
    \/ HealthCheck
    \/ Tick

SpecCache == CacheInit /\ [][CacheNext]_vars

ExecInit ==
    /\ CacheIdle
    /\ ServeIdle
    /\ LineageIdle
    /\ allowed_datasets \in {<<>>, <<DatasetDs>>}
    /\ xres = [mode |-> "none"]
    /\ queryLog = <<>>
    /\ BatchIdle
    /\ SideIdle

\* the log store accepts every write here; SpecLog follows the calls whose log
\* write fails
ExecNext ==
    \/ \E sql \in SqlTexts, o \in Overrides, n \in BytesNeeded, r \in RowCounts,
          fault \in BOOLEAN :
          ExecuteForVerification(sql, o, n, r, fault, TRUE)
    \/ \E sql \in SqlTexts, o \in Overrides, n \in BytesNeeded, r \in RowCounts,
          fault \in BOOLEAN :
          ExecuteForServing(sql, o, n, r, fault, TRUE)

SpecExec == ExecInit /\ [][ExecNext]_vars

\* the executor called with the texts of a dashboard's queries
LogInit ==
    /\ CacheIdle
    /\ ExecIdle
    /\ ServeIdle
    /\ LineageIdle

LogNext ==
    \/ \E sql \in BatchSqls, o \in Overrides, n \in BytesNeeded, r \in RowCounts,
          fault \in BOOLEAN, logOk \in BOOLEAN :
          ExecuteForVerification(sql, o, n, r, fault, logOk)
    \/ \E sql \in BatchSqls, o \in Overrides, n \in BytesNeeded, r \in RowCounts,
          fault \in BOOLEAN, logOk \in BOOLEAN :
          ExecuteForServing(sql, o, n, r, fault, logOk)

SpecLog == LogInit /\ [][LogNext]_vars

\* the id of the i-th query of a dashboard
BatchId(i) == <<"q">> \o IntToStr(i)

\* the queries of a dashboard, in any order: distinct ids (validate_query_ids_unique)
BatchQueries ==
    UNION {{[i \in 1..n |-> [id |-> BatchId(ids[i]), sql |-> sqls[i]]] :
               ids \in {f \in [1..n -> 1..n] : \A i, j \in 1..n : f[i] = f[j] => i = j},
               sqls \in [1..n -> BatchSqls]} : n \in 1..MaxBatch}

BatchInit ==
    /\ CacheIdle
    /\ ServeIdle
    /\ LineageIdle
    /\ allowed_datasets = <<>>
    /\ xres = [mode |-> "none"]
    /\ queryLog = <<>>
    /\ tasks = <<>>
    /\ result_map = NoResult
    /\ max_concurrent_queries \in 1..MaxConcurrent
    /\ executor_workers \in 1..MaxWorkers
    /\ SideIdle

BatchNext ==
    \/ \E queries \in BatchQueries : BatchStart(queries)
    \/ \E i \in 1..MaxBatch : TaskSubmit(i)
    \/ \E i \in 1..MaxBatch : WorkerStart(i)
    \/ \E i \in 1..MaxBatch, needed \in BytesNeeded, rows \in RowCounts,
          fault \in BOOLEAN, logOk \in BOOLEAN : WorkerFinish(i, needed, rows, fault, logOk)
    \/ BatchReturn

SpecBatch == BatchInit /\ [][BatchNext]_vars

\* a slug that begins with another dashboard's slug
SlugA2 == <<"r", "e", "v", "2">>

PrefixSlugs == {SlugA, SlugA2, SlugB}

PrefixKeys == {DataKey(SlugA, 1), DataKey(SlugA, 2), DataKey(SlugA2, 1), DataKey(SlugB, 1)}

\* the dashboard a data key belongs to
KeySlug(k) ==
    CHOOSE slug \in PrefixSlugs : \E version \in 1..MaxVersion : k = DataKey(slug, version)

KeySlugOf == [k \in PrefixKeys |-> KeySlug(k)]

PrefixInit == CacheInit

PrefixNext ==
    \/ \E k \in PrefixKeys, v \in Values : Set(k, v, NoTtl)
    \/ \E k \in PrefixKeys : Get(k)
    \/ \E slug \in PrefixSlugs : InvalidatePattern(StrDashboard \o slug)
    \/ Tick

SpecPrefix == PrefixInit /\ [][PrefixNext]_vars

BackendsInit ==
    /\ CacheIdle
    /\ ExecIdle
    /\ ServeIdle
    /\ LineageIdle

BackendsNext ==
    \/ \E k \in Keys : BackendGet(k)
    \/ \E k \in Keys, v \in BackendValues, ttl \in Ttls : BackendSet(k, v, ttl)
    \/ \E k \in Keys : BackendDelete(k)
    \/ \E pattern \in Patterns : BackendInvalidatePattern(pattern)
    \/ BackendTick

SpecBackends == BackendsInit /\ [][BackendsNext]_vars

ServeInit ==
    /\ CacheIdle
    /\ ExecIdle
    /\ LineageIdle
    /\ dashboards \in {[s \in Slugs |-> IF s = FollowedSlug \/ both THEN NewRow ELSE NoRow] :
                       both \in BOOLEAN}
    /\ sreq = NoReq
    /\ preq = NoReq
    /\ resp = NoResp
    /\ writtenVer = [k \in {} |-> NoVersion]
    /\ first = NoFirst
    /\ epoch = NoEpoch
    /\ warm = NoWarm

ServeNext ==
    \/ \E slug \in Slugs : ServeNotFound(slug)
    \/ \E force \in BOOLEAN : ServeLoad(FollowedSlug, force)
    \/ ServeFinish
    \/ \E slug \in Slugs : PrecomputeNotFound(slug)
    \/ \E slug \in Slugs : PrecomputeLoad(slug)
    \/ PrecomputeFinish
    \/ \E slug \in Slugs : InvalidateDashboardCache(slug)
    \/ IncrementVersion(FollowedSlug)
    \/ ServeTick

SpecServe == ServeInit /\ [][ServeNext]_vars

OutageInit == ServeInit

OutageNext ==
    \/ \E slug \in Slugs : ServeNotFound(slug)
    \/ \E force \in BOOLEAN : ServeLoad(FollowedSlug, force)
    \/ \E upGet \in BOOLEAN, upSet \in BOOLEAN : ServeFinishRedis(upGet, upSet)
    \/ IncrementVersion(FollowedSlug)
    \/ ServeTick

SpecOutage == OutageInit /\ [][OutageNext]_vars

LineageInit ==
    /\ CacheIdle
    /\ ExecIdle
    /\ LineageIdle
    /\ dashboards \in {[s \in Slugs |-> IF s = FollowedSlug \/ both THEN NewRow ELSE NoRow] :
                       both \in BOOLEAN}
    /\ sreq = NoReq
    /\ preq = NoReq
    /\ resp = NoResp
    /\ writtenVer = [k \in {} |-> NoVersion]
    /\ first = NoFirst
    /\ epoch = NoEpoch
    /\ warm = NoWarm

LineageNext ==
    \/ \E slug \in Slugs, d \in Definitions : RebuildWrite(slug, d)
    \/ RebuildInvalidate
    \/ RebuildCommit
    \/ RebuildRollback
    \/ \E slug \in Slugs : GraphStart(slug)
    \/ GraphFindDashboard
    \/ GraphNodes
    \/ GraphEdges
    \/ LineageTick

SpecLineage == LineageInit /\ [][LineageNext]_vars

\* rebuilds of two dashboards and the two impact queries
ImpactNext ==
    \/ \E slug \in Slugs, d \in ImpactDefinitions : RebuildWrite(slug, d)
    \/ RebuildInvalidate
    \/ RebuildCommit
    \/ RebuildRollback
    \/ \E slug \in Slugs : UpstreamTables(slug)
    \/ \E table_name \in AllTables : DownstreamDashboards(table_name)

SpecImpact == LineageInit /\ [][ImpactNext]_vars

CompileInit ==
    /\ CacheIdle
    /\ allowed_datasets = <<>>
    /\ xres = [mode |-> "none"]
    /\ queryLog = <<>>
    /\ BatchIdle
    /\ BackendIdle
    /\ compiled \in {[NoCompiled EXCEPT !.definition = d] : d \in Posted}
    /\ hashed = NoHashed
    /\ ServeIdle
    /\ LineageIdle

CompileNext == \E hash_seed \in HashSeeds : CompileDashboard(hash_seed)

SpecCompile == CompileInit /\ [][CompileNext]_vars

\* queries whose SQL names one table, two tables, or one of them twice
RepostedTables ==
    {<<TableT1>>, <<TableT1, TableT2>>, <<TableT2, TableT1, TableT2>>}

\* valid definitions posted twice: one or two charts over one or two queries
Reposted ==
    {d \in {[slug |-> SlugA, name |-> "Revenue", layout |-> l, queries |-> q] :
               l \in SeqsUpTo(LayoutItems, MaxLayout),
               q \in SeqsUpTo({[id |-> i, sql |-> "s1", tables |-> t] :
                                  i \in QueryIds, t \in RepostedTables}, MaxQueries)} :
        model_validate(d)}

RecompileInit ==
    /\ CacheIdle
    /\ allowed_datasets = <<>>
    /\ xres = [mode |-> "none"]
    /\ queryLog = <<>>
    /\ BatchIdle
    /\ BackendIdle
    /\ compiled \in {[NoCompiled EXCEPT !.definition = d] : d \in Reposted}
    /\ hashed = NoHashed
    /\ ServeIdle
    /\ LineageIdle

RecompileNext ==
    \/ \E hash_seed \in HashSeeds : CompileDashboard(hash_seed)
    \/ \E hash_seed \in HashSeeds : CompileAgain(hash_seed)

SpecRecompile == RecompileInit /\ [][RecompileNext]_vars

HashInit ==
    /\ CacheIdle
    /\ allowed_datasets = <<>>
    /\ xres = [mode |-> "none"]
    /\ queryLog = <<>>
    /\ BatchIdle
    /\ BackendIdle
    /\ compiled = NoCompiled
    /\ hashed \in {[NoHashed EXCEPT !.sql1 = a, !.sql2 = b] : a, b \in HashTexts}
    /\ ServeIdle
    /\ LineageIdle

HashNext == HashQueries

SpecHash == HashInit /\ [][HashNext]_vars

MaxGridItems == 3   \* layout items of a definition posted for its grid

\* positions on two rows: narrow and half-width items at the left edge, at
\* column 4 and at column 6, one or two rows high
GridPositions ==
    {[x |-> x, y |-> y, w |-> w, h |-> h] :
        x \in {0, 4, 6}, y \in {0, 1}, w \in {2, 6}, h \in {1, 2}}

\* definitions that differ in their grid only: the i-th item is chart i on the
\* one query
GridPosted ==
    {[slug |-> SlugA, name |-> "Revenue",
      layout |-> [i \in 1..Len(ps) |->
                    [id |-> <<"c", IdDigit[i]>>, query_ref |-> IdQ1, title |-> "Total",
                     position |-> ps[i]]],
      queries |-> <<[id |-> IdQ1, sql |-> "s1", tables |-> <<TableT1>>]>>] :
        ps \in UNION {[1..k -> GridPositions] : k \in 1..MaxGridItems}}

GridInit ==
    /\ CacheIdle
    /\ allowed_datasets = <<>>
    /\ xres = [mode |-> "none"]
    /\ queryLog = <<>>
    /\ BatchIdle
    /\ BackendIdle
    /\ compiled \in {[NoCompiled EXCEPT !.definition = d] : d \in GridPosted}
    /\ hashed = NoHashed
    /\ ServeIdle
    /\ LineageIdle

GridNext == \E hash_seed \in {<<TableT1, TableT2>>} : CompileDashboard(hash_seed)

SpecGrid == GridInit /\ [][GridNext]_vars

----------------------------------------------------------------------------
(* Properties of the in-process cache *)

\* the ttl the caller of set() asked for; None asks for the default
RequestedTtl(ttl) == IF ttl = NoTtl THEN DefaultTtl ELSE ttl

\* C7: after set(k, v, ttl), a get(k) issued before the TTL elapses returns
\* exactly v, whatever happened to other keys, provided k was not deleted,
\* invalidated, cleared, overwritten or evicted in between.
C7_GetReturnsValueSet ==
    (/\ cret.op = "get"
     /\ cret.key = Watched
     /\ lastSet.intact
     /\ now < lastSet.at + RequestedTtl(lastSet.ttl))
    => cret.value = <<lastSet.value>>

C7_Witness ==
    /\ cret.op = "get"
    /\ cret.key = Watched
    /\ lastSet.intact
    /\ now > lastSet.at
    /\ now < lastSet.at + RequestedTtl(lastSet.ttl)
    /\ cret.value = <<lastSet.value>>
    /\ Len(cache) = MaxSize

\* C8: after set(k, v, ttl) with no later set of k, every get(k) and
\* exists(k) issued once more than ttl seconds have passed returns absent.
C8_AbsentAfterTtl ==
    (/\ cret.op \in {"get", "exists"}
     /\ cret.key = Watched
     /\ lastSet.at >= 0
     /\ now > lastSet.at + RequestedTtl(lastSet.ttl))
    => (cret.value = <<>> /\ ~cret.found)

\* C8 restricted to sets whose ttl argument is not 0
C8_AbsentAfterNonZeroTtl ==
    (/\ cret.op \in {"get", "exists"}
     /\ cret.key = Watched
     /\ lastSet.at >= 0
     /\ lastSet.ttl # 0
     /\ now > lastSet.at + RequestedTtl(lastSet.ttl))
    => (cret.value = <<>> /\ ~cret.found)

\* C9: a set that has to make room (new key, max_size unexpired entries)
\* removes exactly one entry, the one whose most recent access (successful
\* get, exists or set) is the oldest.
C9_EvictsLeastRecentlyUsed ==
    (cret.op = "set" /\ cret.full /\ cret.isNew)
    => (cret.lru # <<>> /\ cret.removed = {cret.lru[1]})

C9_Witness ==
    /\ cret.op = "set"
    /\ cret.full
    /\ cret.isNew
    /\ cret.lru # <<>>
    /\ cret.removed = {cret.lru[1]}
    /\ Len(cache) = MaxSize

----------------------------------------------------------------------------
(* Properties of guarded query execution *)

\* a mutating keyword occurs in the SQL, in any letter case
HasMutatingKeyword(sql) == \E kw \in MutatingKeywords : Contains(kw, Upper(sql))

HasMutatingKeywordOf == [sql \in SqlTexts |-> HasMutatingKeyword(sql)]

ReferencesAllowedDataset(sql) ==
    \E i \in 1..Len(allowed_datasets) : allowed_datasets[i] \in ReferencesDatasetOf[sql]

\* the byte cap the caller asked for
EffectiveCap(override) == IF override # NoBytes THEN override ELSE bigquery_max_bytes_billed

\* C3: the engine receives a submission only if the SQL contains no mutating
\* keyword (any letter case) and, with a non-empty allowlist, references an
\* allowlisted dataset.
C3_SubmittedOnlyIfGuardsPass ==
    (xres.mode # "none" /\ xres.calls # <<>>)
    => (/\ ~HasMutatingKeywordOf[xres.sql]
        /\ (allowed_datasets # <<>> => ReferencesAllowedDataset(xres.sql)))

\* C3 for what validate_query itself rejects: no submission then
C3_NoCallWhenValidationFails ==
    (xres.mode # "none" /\ xres.cause \in {"dangerous", "datasets"})
    => xres.calls = <<>>

\* C4: a guardrail rejection reaches the caller as a typed error naming the
\* failed check (DangerousSQL, else QueryValidationFailed), never as a
\* generic engine failure or a normal result.
C4_RejectionIsTypedError ==
    /\ (xres.mode # "none" /\ xres.cause = "dangerous")
       => (xres.outcome = "raised" /\ xres.type = "DangerousSQLException")
    /\ (xres.mode # "none" /\ xres.cause = "datasets")
       => (xres.outcome = "raised" /\ xres.error_code = "QUERY_VALIDATION_FAILED")

\* C5: when the engine aborts a query over its byte cap, execute fails with
\* BytesLimitExceeded carrying the attempted byte count and the allowed cap,
\* and returns no rows.
C5_BytesLimitExceededCarriesCounts ==
    (xres.mode # "none" /\ xres.cause = "bytes_exceeded")
    => (/\ xres.outcome = "raised"
        /\ xres.error_code = "BYTES_LIMIT_EXCEEDED"
        /\ xres.bytes_attempted = xres.needed
        /\ xres.max_bytes_allowed = xres.calls[1].maximum_bytes_billed
        /\ xres.rows_returned = 0)

\* C5, the part about rows only
C5_NoRowsWhenOverCap ==
    (xres.mode # "none" /\ xres.cause = "bytes_exceeded")
    => (xres.rows_returned = 0 /\ ~xres.valid)

\* C6: every submission carries the per-query override when the caller gave
\* one, else the global default, in verify and in serve mode alike.
C6_CapIsOverrideElseDefault ==
    (xres.mode # "none" /\ xres.calls # <<>>)
    => xres.calls[1].maximum_bytes_billed = EffectiveCap(xres.override)

\* C6 in verify mode only
C6_VerifyCapIsOverrideElseDefault ==
    (xres.mode = "verify" /\ xres.calls # <<>>)
    => xres.calls[1].maximum_bytes_billed = EffectiveCap(xres.override)

----------------------------------------------------------------------------
(* Properties of data serving *)

\* the last step completed a serve(slug, force_refresh=false) of an existing dashboard
PlainServe == resp.op = "serve" /\ resp.status = "ok" /\ ~resp.force

\* ... and an earlier plain serve cached the key under the same version, the key
\* stayed in the cache since, and that serve's TTL has not elapsed
LaterServe ==
    /\ PlainServe
    /\ resp.slug = FollowedSlug
    /\ resp.prior.valid
    /\ resp.prior.version = resp.version
    /\ resp.at < resp.prior.at + cache_default_ttl

SameAsFirst ==
    /\ resp.cache_hit
    /\ resp.data = resp.prior.data
    /\ resp.as_of = resp.prior.as_of

\* C1 as stated: the first plain serve of an uncached key misses; every later
\* plain serve before the TTL elapses, with no version change and no eviction
\* or deletion of the key in between, hits with the first call's payload and
\* as_of.
C1_LaterServeRepeatsFirst ==
    /\ (PlainServe /\ ~resp.keyCached) => ~resp.cache_hit
    /\ LaterServe => SameAsFirst

\* the response is a hit carrying the payload most recently written to the key
SameAsLatestWrite ==
    /\ resp.cache_hit
    /\ resp.data = resp.prior.latest
    /\ resp.as_of = resp.prior.latest.computed_at

\* C1 amended: the first plain serve of an uncached key misses; every later
\* plain serve (same conditions) hits with the payload and as_of of the most
\* recent write of the key, which are the first call's unless a force-refresh
\* serve or a precompute wrote the key again in between.
C1_LaterServeRepeatsFirstUnlessRewritten ==
    /\ (PlainServe /\ ~resp.keyCached) => ~resp.cache_hit
    /\ LaterServe => SameAsLatestWrite
    /\ (LaterServe /\ resp.prior.sole) => SameAsFirst

C1_Witness ==
    /\ LaterServe
    /\ resp.prior.sole
    /\ resp.cache_hit
    /\ resp.at > resp.prior.at
    /\ resp.data.note = ServeNote

\* C2 as stated: after a version increment made while a payload was cached, no
\* serve returns a payload cached under the earlier version, and the first
\* serve after the increment is a miss.
C2_NoStalePayloadFirstServeMisses ==
    /\ (resp.op = "serve" /\ resp.afterIncr /\ resp.cache_hit)
       => resp.srcVersion = resp.version
    /\ (resp.op = "serve" /\ resp.firstAfterIncr) => ~resp.cache_hit

\* C2 amended: no serve after the increment returns a payload cached under the
\* earlier version; the first serve after the increment is a miss unless a
\* precompute has cached a payload for the new version since, and then it
\* returns that payload.
C2_NoStalePayloadFirstServeMissesUnlessWarmed ==
    /\ (resp.op = "serve" /\ resp.afterIncr /\ resp.cache_hit)
       => resp.srcVersion = resp.version
    /\ (resp.op = "serve" /\ resp.firstAfterIncr /\ resp.cache_hit)
       => (resp.data.note = PrecomputeNote /\ resp.srcVersion = resp.version)

C2_Witness ==
    /\ resp.op = "serve"
    /\ resp.firstAfterIncr
    /\ ~resp.force
    /\ ~resp.cache_hit
    /\ resp.version > 1
    /\ Cached(cache, DataKey(FollowedSlug, resp.version - 1), now)

----------------------------------------------------------------------------
(* Properties of the lineage store *)

\* a graph by node and edge identity, as the seeds name them
ObservedGraph(g) ==
    [nodes |-> {[node_type |-> n.node_type, node_id |-> n.node_id,
                 metadata |-> n.metadata] : n \in g.nodes},
     edges |-> {[source_node_id |-> e.source[1], target_node_id |-> e.target[1],
                 edge_type |-> e.edge_type] : e \in g.edges}]

\* the graph get_lineage_graph shows for a dashboard built from d alone: the
\* dashboard, chart and query nodes of the seeds and all edges of the seeds
ExpectedGraph(d) ==
    IF d = NoDef THEN NoGraph
    ELSE [nodes |-> {n \in SeqToSet(SeedsOf[d].nodes) : n.node_type # "table"},
          edges |-> SeqToSet(SeedsOf[d].edges)]

ExpectedGraphOf == [d \in Definitions \cup {NoDef} |-> ExpectedGraph(d)]

\* what an uncached get_lineage_graph run in one piece would return now
CommittedGraph(ns, es, slug) ==
    LET nodes == IF \E n \in ns : n.node_type = "dashboard" /\ n.node_id = slug
                 THEN ScopedNodes(ns, slug) ELSE {}
    IN ObservedGraph([nodes |-> nodes,
                      edges |-> _get_edges_for_nodes(es, {n.id : n \in nodes})])

\* an uncached get_lineage_graph returns the graph of a definition that was
\* the committed one at some moment of the call
C10_ReaderSeesOldOrNew ==
    (gresp.op = "graph" /\ gresp.status = "ok" /\ ~gresp.cached)
    => ObservedGraph(gresp.graph) \in {ExpectedGraphOf[d] : d \in gresp.allowed}

\* after a committed rebuild nothing that only the previous graph had remains
C10_NothingOfPreviousRemains ==
    \A slug \in Slugs :
        LET cur == ExpectedGraphOf[lineage[slug].cur]
            prev == ExpectedGraphOf[lineage[slug].prev]
            g == CommittedGraph(lnodes, ledges, slug)
        IN /\ g.nodes \cap (prev.nodes \ cur.nodes) = {}
           /\ g.edges \cap (prev.edges \ cur.edges) = {}

C10_OtherDashboardsUntouched ==
    [][\A o \in Slugs :
          (tx.pc = "returned" /\ tx.slug # o)
          => CommittedGraph(lnodes', ledges', o) = CommittedGraph(lnodes, ledges, o)]_vars

\* C10, one rebuild only: the first build of a dashboard is seen whole or not at all
C10_FirstBuildSeenWholeOrNotAtAll ==
    (gresp.op = "graph" /\ gresp.status = "ok" /\ ~gresp.cached
     /\ rebuilds[gresp.slug] <= 1)
    => ObservedGraph(gresp.graph) \in {ExpectedGraphOf[d] : d \in gresp.allowed}

\* a get_lineage_graph answered from the cache after a rebuild of the slug was
\* committed shows what the store holds for the slug now
C11_CachedGraphIsCurrent ==
    (gresp.op = "graph" /\ gresp.status = "ok" /\ gresp.cached
     /\ lineage[gresp.slug].cur # NoDef)
    => ObservedGraph(gresp.graph) = CommittedGraph(lnodes, ledges, gresp.slug)

\* a get_lineage_graph that read the store while no rebuild of the slug was
\* committed or pending shows what the store holds for the slug now
C11_UncachedGraphIsCurrent ==
    (gresp.op = "graph" /\ gresp.status = "ok" /\ ~gresp.cached
     /\ gresp.allowed = {lineage[gresp.slug].cur} /\ tx.pc = "idle")
    => ObservedGraph(gresp.graph) = CommittedGraph(lnodes, ledges, gresp.slug)

\* C11: once a rebuild of a slug has completed, every get_graph of the slug
\* returns the graph of that rebuild or of a later one, never a graph that was
\* cached before it, also when a get_graph was in progress during the rebuild.
C11_NoGraphFromBeforeRebuild ==
    /\ C11_CachedGraphIsCurrent
    /\ C11_UncachedGraphIsCurrent

----------------------------------------------------------------------------
(* Properties of precompute *)

\* a completed precompute stored a payload computed by this call, whatever the
\* cache held, under the data key of the version it returns
PrecomputeStored ==
    \E i \in 1..Len(cache) :
        /\ cache[i].key = DataKey(resp.slug, resp.version)
        /\ cache[i].value = precomputed_data(resp.as_of)
        /\ resp.as_of = resp.at

\* a plain serve of the version the last completed precompute wrote, while
\* that key is cached and unexpired
ServeAfterPrecompute ==
    /\ resp.op = "serve" /\ resp.status = "ok" /\ ~resp.force
    /\ resp.warm.valid /\ resp.warm.version = resp.version
    /\ resp.keyCached

\* precompute stores its payload under the key of the version the dashboards
\* row has when the call returns
C12_PrecomputeWritesCurrentVersion ==
    (resp.op = "precompute" /\ resp.status = "success")
    => (PrecomputeStored /\ resp.version = dashboards[resp.slug].version)

\* the serve after a precompute is a hit with the timestamp precompute reported
C12_ServeHitsWithPrecomputeTime ==
    ServeAfterPrecompute => (resp.cache_hit /\ resp.as_of = resp.warm.as_of)

\* C12 as stated: precompute never reads the cache and always writes the data
\* key of the dashboard's current version; a plain serve that follows a
\* completed precompute (same version, within TTL, key not evicted) is a hit
\* whose as_of is the computed_at that precompute reported.
C12_ServeRepeatsPrecompute ==
    /\ C12_PrecomputeWritesCurrentVersion
    /\ C12_ServeHitsWithPrecomputeTime

\* C12 amended: precompute never reads the cache and always writes the data
\* key of the version it loaded from the dashboards row; a plain serve that
\* follows a completed precompute (same version, within TTL, key not evicted)
\* is a hit whose as_of is the computed_at of the most recent write of the
\* key, which is the one that precompute reported unless a force-refresh serve
\* stored the key after it.
C12_ServeRepeatsLatestWrite ==
    /\ (resp.op = "precompute" /\ resp.status = "success") => PrecomputeStored
    /\ ServeAfterPrecompute
       => /\ resp.cache_hit
          /\ resp.as_of = resp.warm.latest
          /\ resp.warm.sole => resp.as_of = resp.warm.as_of

C12_Witness ==
    /\ ServeAfterPrecompute
    /\ resp.warm.sole
    /\ resp.cache_hit
    /\ resp.as_of = resp.warm.as_of
    /\ resp.at > resp.as_of

----------------------------------------------------------------------------
(* Properties of parallel query execution *)

\* C13: during the fan-out of a dashboard's queries the number of queries in
\* flight at the engine never exceeds settings.max_concurrent_queries.
C13_InFlightWithinLimit ==
    Cardinality(InFlight) <= max_concurrent_queries

\* the number in flight is bounded by the threads of the default executor
C13_InFlightWithinWorkers ==
    Cardinality(InFlight) <= executor_workers

\* no query of a batch fails for a reason other than its own validation or
\* its own engine outcome: a task only raises from "created" or "running"
C13_NoneRejectedForLimit ==
    [][\A i \in 1..Len(tasks) :
          (i <= Len(tasks') /\ tasks'[i].pc = "raised" /\ tasks[i].pc # "raised")
          => tasks[i].pc \in {"created", "running"}]_vars

----------------------------------------------------------------------------
(* Properties of the writers of one data key *)

\* a payload without its timestamp
Undated(data) == [data EXCEPT !.computed_at = NoTime]

\* C14: all writes to one data key store the same content: the payload a
\* later serve or precompute of the same slug and version stores under the
\* key equals the payload the first writer stored.
C14_WritersStoreEqualValues ==
    first.valid => first.latest = first.data

\* the same, not counting the computed_at timestamp of the payloads
C14_WritersStoreEqualUndatedValues ==
    first.valid => Undated(first.latest) = Undated(first.data)

\* the chart payloads and the query count of all writes to one key are equal
C14_WritersStoreEqualCharts ==
    first.valid => /\ first.latest.charts = first.data.charts
                   /\ first.latest.query_count = first.data.query_count

----------------------------------------------------------------------------
(* Properties of the two cache backends *)

\* the call made to both backends returned the same result in both
SameResult == bret.local = bret.remote

C15_GetAgrees == bret.op = "get" => SameResult

C15_SetAgrees == bret.op = "set" => SameResult

C15_DeleteAgrees == bret.op = "delete" => SameResult

\* invalidate_pattern returns the same count and leaves the same keys in both
C15_InvalidatePatternAgrees ==
    bret.op = "invalidate_pattern"
    => (SameResult /\ bret.localKeys = bret.remoteKeys)

\* C15: for every sequence of get, set, delete and invalidate_pattern calls
\* (JSON-serialisable values, capacity never reached, backend reachable) the
\* in-process cache and the Redis cache return the same result for each call,
\* and invalidate_pattern removes the same keys and returns the same count.
C15_BackendsAgree ==
    /\ C15_GetAgrees
    /\ C15_SetAgrees
    /\ C15_DeleteAgrees
    /\ C15_InvalidatePatternAgrees

----------------------------------------------------------------------------
(* Properties of invalidation by dashboard prefix *)

\* invalidate_pattern was just called with the key prefix of this dashboard
InvalidatedPrefixOf(slug) ==
    cret.op = "invalidate" /\ cret.key = StrDashboard \o slug

\* no entry of the dashboard is left, the count is the number of entries
\* removed, and every entry removed belonged to the dashboard
OnlyOwnEntriesRemoved(slug) ==
    /\ \A k \in CacheKeys(cache) : KeySlugOf[k] # slug
    /\ cret.count = Cardinality(cret.removed)
    /\ \A k \in cret.removed : KeySlugOf[k] = slug

\* C16: invalidate_pattern called with one dashboard's key prefix removes
\* every cache entry of that dashboard, returns the number of entries it
\* removed, and leaves the entries of every other dashboard in the cache.
C16_PrefixRemovesOnlyOwnEntries ==
    \A slug \in PrefixSlugs : InvalidatedPrefixOf(slug) => OnlyOwnEntriesRemoved(slug)

\* the same for a dashboard whose slug no other slug begins with
C16_PrefixFreeSlugRemovesOnlyOwnEntries ==
    \A slug \in {SlugA2, SlugB} : InvalidatedPrefixOf(slug) => OnlyOwnEntriesRemoved(slug)

----------------------------------------------------------------------------
(* Properties of serving with a failing cache backend *)

ServedViaRedis == resp.op = "serve" /\ resp.backend = "redis"

\* C17: when the cache backend fails, get yields absent and set reports
\* failure without raising, and serve returns a freshly computed payload with
\* cache_hit=false instead of failing the request.
C17_ServeSurvivesCacheFailure ==
    /\ ServedViaRedis => resp.status = "ok"
    /\ (ServedViaRedis /\ ~resp.upGet) => ~resp.cache_hit
    /\ (ServedViaRedis /\ ~resp.cache_hit)
       => /\ resp.data = computed_data(resp.at)
          /\ resp.setResult = <<resp.upSet>>

\* a plain serve finds the server down for both calls although the key is stored
C17_Witness ==
    /\ ServedViaRedis /\ ~resp.force
    /\ ~resp.upGet /\ ~resp.upSet
    /\ resp.keyCached
    /\ resp.status = "ok" /\ ~resp.cache_hit
    /\ resp.data = computed_data(resp.at)
    /\ resp.setResult = <<FALSE>>

----------------------------------------------------------------------------
(* Properties of the query log *)

\* a call of the executor has completed while the log store accepted writes
LoggedCall == xres.mode # "none" /\ xres.logOk

\* C18: every call to execute, in verify mode or serve mode, ending in
\* success or in failure, adds exactly one query-log entry for that execution
\* as long as the log store accepts writes.
C18_EveryCallAddsOneLogEntry ==
    LoggedCall => xres.added = 1

\* every call in verify mode adds exactly one entry
C18_VerifyAddsOneLogEntry ==
    (LoggedCall /\ xres.mode = "verify") => xres.added = 1

\* every call in serve mode that returns rows adds exactly one entry
C18_SuccessfulServeAddsOneLogEntry ==
    (LoggedCall /\ xres.mode = "serve" /\ xres.outcome = "returned") => xres.added = 1

\* the outcome of a call without what tells the log write apart
Returned(x) == [x EXCEPT !.logOk = TRUE, !.added = 0]

\* the same call with a log store that accepts the write
SameCallLogged(x, log) ==
    IF x.mode = "verify"
    THEN execute_for_verification(log, x.sql, x.override, x.needed, x.rows_in, x.fault,
                                  TRUE).x
    ELSE execute_for_serving(log, x.sql, x.override, x.needed, x.rows_in, x.fault, TRUE).x

\* C19: if writing the query-log entry fails, execute returns to its caller
\* the outcome (rows, verification result or query error) it would have
\* returned had the write succeeded, and the log failure is not raised.
C19_LogFailureLeavesOutcome ==
    (xres.mode # "none" /\ ~xres.logOk)
    => Returned(xres) = Returned(SameCallLogged(xres, <<>>))

\* a serve and a verify whose log write failed and that returned rows
C19_Witness ==
    /\ xres.mode # "none" /\ ~xres.logOk
    /\ xres.outcome = "returned" /\ xres.valid /\ xres.row_count > 0
    /\ xres.added = 0

----------------------------------------------------------------------------
(* Properties of compilation *)

\* the compile call of a valid definition has been answered
CompiledValid == compiled.status # 0 /\ model_validate(compiled.definition)

\* the seeds have the claimed shape for definition d
SeedsAsClaimed(d, nodes, edges) ==
    LET M == Len(d.layout)
        N == Len(d.queries)
        chart(item) == d.slug \o StrChart \o item.id
        query(id) == d.slug \o StrQuery \o id
        NodesOfType(t) == SelectSeq(nodes, LAMBDA n : n.node_type = t)
        EdgesOfType(t) == SelectSeq(edges, LAMBDA e : e.edge_type = t)
        EdgesFrom(t, source) ==
            {k \in 1..Len(edges) :
                edges[k].edge_type = t /\ edges[k].source_node_id = source}
    IN /\ Len(NodesOfType("dashboard")) = 1
       /\ Len(NodesOfType("chart")) = M
       /\ Len(NodesOfType("query")) = N
       /\ Len(nodes) = 1 + M + N + Len(NodesOfType("table"))
       /\ Len(EdgesOfType("contains")) = M
       /\ Len(EdgesOfType("executes")) = M
       /\ \A i \in 1..M :
            /\ \E k \in 1..Len(edges) :
                  /\ edges[k].edge_type = "contains"
                  /\ edges[k].source_node_id = d.slug
                  /\ edges[k].target_node_id = chart(d.layout[i])
            /\ Cardinality(EdgesFrom("executes", chart(d.layout[i]))) = 1
            /\ \A k \in EdgesFrom("executes", chart(d.layout[i])) :
                  edges[k].target_node_id = query(d.layout[i].query_ref)

\* C20: for a valid definition with N queries and M layout items, compile
\* emits exactly 1 dashboard node, M chart nodes and N query nodes, every other
\* node being a table node; exactly M contains edges, one from the dashboard to
\* each chart; and exactly one executes edge per layout item, which goes from
\* that chart to the query its query_ref names.
C20_CompileEmitsSeeds ==
    CompiledValid =>
        /\ compiled.status = 200
        /\ SeedsAsClaimed(compiled.definition,
                          compiled.result[1].lineage_nodes,
                          compiled.result[1].lineage_edges)

\* C20, inside the compiler: what _build_lineage_seeds returns for a valid
\* definition has the claimed nodes and edges
C20_BuilderReturnsSeeds ==
    CompiledValid =>
        SeedsAsClaimed(compiled.definition, compiled.seeds[1].nodes,
                       compiled.seeds[1].edges)

\* C20: no compile call returns a result
C20_CompileNeverReturns == compiled.status # 200

\* the compile call of a valid definition has built its plan and its seeds
Built == CompiledValid /\ compiled.plan # <<>> /\ compiled.seeds # <<>>

BuiltPlan == compiled.plan[1]

CompiledTwice == compiled.status # 0 /\ compiled.earlier # <<>>

EarlierCompile == compiled.earlier[1]

\* C22: compile applied twice to the same definition yields identical
\* execution plans and identical lineage node and edge lists, with the same
\* elements in the same order.
C22_CompileIsDeterministic ==
    CompiledTwice =>
        /\ compiled.plan = EarlierCompile.plan
        /\ compiled.seeds = EarlierCompile.seeds

\* C22 for the plan alone: the two plans are identical
C22_PlanIsDeterministic == CompiledTwice => compiled.plan = EarlierCompile.plan

\* C22 within one process: the two calls yield identical plans and lists
C22_SameProcessIsDeterministic ==
    CompiledTwice /\ compiled.worker = EarlierCompile.worker =>
        /\ compiled.plan = EarlierCompile.plan
        /\ compiled.seeds = EarlierCompile.seeds

\* C22 without the order: the two calls yield the same nodes and the same edges
C22_SameElements ==
    CompiledTwice /\ compiled.seeds # <<>> =>
        LET a == compiled.seeds[1]
            b == EarlierCompile.seeds[1]
        IN /\ Len(a.nodes) = Len(b.nodes)
           /\ Len(a.edges) = Len(b.edges)
           /\ {a.nodes[i] : i \in 1..Len(a.nodes)} = {b.nodes[i] : i \in 1..Len(b.nodes)}
           /\ {a.edges[i] : i \in 1..Len(a.edges)} = {b.edges[i] : i \in 1..Len(b.edges)}

BuiltNodes == compiled.seeds[1].nodes
BuiltEdges == compiled.seeds[1].edges

\* no two nodes at different positions of the list have one (type, node_id)
NodesAreUnique(nodes) ==
    \A i, j \in 1..Len(nodes) :
        nodes[i].node_type = nodes[j].node_type /\ nodes[i].node_id = nodes[j].node_id
            => i = j

\* no two edges at different positions have one (source, target, edge_type)
EdgesAreUnique(edges) ==
    \A i, j \in 1..Len(edges) :
        /\ edges[i].source_node_id = edges[j].source_node_id
        /\ edges[i].target_node_id = edges[j].target_node_id
        /\ edges[i].edge_type = edges[j].edge_type
        => i = j

\* C23: among the lineage nodes and edges compile emits for a valid definition,
\* every (type, node_id) pair occurs once among the nodes and every
\* (source, target, edge_type) triple occurs once among the edges.
C23_SeedsAreUnique ==
    Built => NodesAreUnique(BuiltNodes) /\ EdgesAreUnique(BuiltEdges)

\* C23 for the edges alone
C23_EdgesAreUnique == Built => EdgesAreUnique(BuiltEdges)

\* C23 for the nodes that are not table nodes
C23_OtherNodesAreUnique ==
    Built => NodesAreUnique(SelectSeq(BuiltNodes, LAMBDA n : n.node_type # "table"))

\* C23 when no two queries read one table
C23_UniqueWhenTablesNotShared ==
    Built /\ (\A i, j \in 1..Len(compiled.definition.queries) :
                 i # j => \A a \in 1..Len(compiled.definition.queries[i].tables),
                             b \in 1..Len(compiled.definition.queries[j].tables) :
                            compiled.definition.queries[i].tables[a]
                                # compiled.definition.queries[j].tables[b])
        => NodesAreUnique(BuiltNodes)

----------------------------------------------------------------------------
(* Properties of the impact queries *)

\* the tables the queries of a definition read
TablesRead(d) ==
    UNION {{d.queries[i].tables[j] : j \in 1..Len(d.queries[i].tables)} :
             i \in 1..Len(d.queries)}

\* some chart of the definition executes a query that reads the table
ChartReads(d, t) ==
    \E k \in 1..Len(d.layout), i \in 1..Len(d.queries) :
        /\ d.layout[k].query_ref = d.queries[i].id
        /\ \E j \in 1..Len(d.queries[i].tables) : d.queries[i].tables[j] = t

\* C24: upstream_tables(slug) returns exactly the tables some query of the
\* dashboard's current lineage reads, and is empty only when no query of the
\* dashboard reads a table.
C24_UpstreamTablesAreThoseRead ==
    gresp.op = "upstream" => gresp.items = TablesRead(lineage[gresp.slug].cur)

\* C24: upstream_tables returns no table at all
C24_UpstreamTablesIsEmpty == gresp.op = "upstream" => gresp.items = {}

C25_DownstreamAfterFirstBuilds ==
    gresp.op = "downstream" /\ (\A s \in Slugs : lineage[s].prev = NoDef) =>
        gresp.items = {s \in Slugs : ChartReads(lineage[s].cur, gresp.table_name)}

\* C25: no current reader of the table is missing from the answer
C25_NoCurrentReaderMissing ==
    gresp.op = "downstream" =>
        {s \in Slugs : ChartReads(lineage[s].cur, gresp.table_name)} \subseteq gresp.items

----------------------------------------------------------------------------
(* Properties of the layout grid *)

\* the two rectangles have a cell in common
SharesCell(p, q) ==
    /\ p.x < q.x + q.w /\ q.x < p.x + p.w
    /\ p.y < q.y + q.h /\ q.y < p.y + p.h

\* the posted definition has been answered
Answered == compiled.status # 0

RejectedForOverlap ==
    compiled.status = 400 /\ compiled.errors = "validate_grid_overlaps"

\* C26: a definition is rejected whenever two of its layout items occupy a
\* common cell of the grid, whichever of the two is declared first, and is not
\* rejected on this ground when no two items share a cell.
C26_RejectedIffTwoItemsShareCell ==
    Answered =>
        LET layout == compiled.definition.layout IN
        /\ (\E i, j \in 1..Len(layout) :
                i # j /\ SharesCell(layout[i].position, layout[j].position))
             => compiled.status = 400
        /\ RejectedForOverlap
             <=> \E i, j \in 1..Len(layout) :
                    i # j /\ SharesCell(layout[i].position, layout[j].position)

\* the item at x=4, w=6 is declared first, the item at x=0, w=6 on the same
\* row second, and the definition is rejected for the overlap
C26_Witness ==
    /\ RejectedForOverlap
    /\ Len(compiled.definition.layout) = 2
    /\ compiled.definition.layout[1].position = [x |-> 4, y |-> 0, w |-> 6, h |-> 1]
    /\ compiled.definition.layout[2].position = [x |-> 0, y |-> 0, w |-> 6, h |-> 1]

----------------------------------------------------------------------------
(* Properties of the query hash *)

\* the tokens of a SQL text from position i on, cur being the token in
\* progress: words, commas, and string literals with everything between
\* their quotes
RECURSIVE Lex(_, _, _, _)
Lex(s, i, cur, inLiteral) ==
    LET flush == IF cur = <<>> THEN <<>> ELSE <<cur>> IN
    IF i > Len(s) THEN flush
    ELSE IF inLiteral
    THEN IF s[i] = "'"
         THEN <<Append(cur, s[i])>> \o Lex(s, i + 1, <<>>, FALSE)
         ELSE Lex(s, i + 1, Append(cur, s[i]), TRUE)
    ELSE IF s[i] = "'" THEN flush \o Lex(s, i + 1, <<s[i]>>, TRUE)
    ELSE IF s[i] \in Whitespace THEN flush \o Lex(s, i + 1, <<>>, FALSE)
    ELSE IF s[i] = "," THEN flush \o <<(<<s[i]>>)>> \o Lex(s, i + 1, <<>>, FALSE)
    ELSE Lex(s, i + 1, Append(cur, s[i]), FALSE)

\* the tokens of a text, letter case left aside
Tokens(s) == LET ts == Lex(s, 1, <<>>, FALSE) IN [i \in 1..Len(ts) |-> Lower(ts[i])]

\* the text is made of words and whitespace only
PlainWords(s) == \A i \in 1..Len(s) : s[i] # "'" /\ s[i] # ","

SameTokens == Tokens(hashed.sql1) = Tokens(hashed.sql2)

SameHashes ==
    /\ hashed.compiler[1] = hashed.compiler[2]
    /\ hashed.client[1] = hashed.client[2]

DifferentHashes ==
    /\ hashed.compiler[1] # hashed.compiler[2]
    /\ hashed.client[1] # hashed.client[2]

\* C27: the query hash is the same for two SQL texts that differ only in the
\* whitespace between tokens or in letter case, and different for two SQL texts
\* whose token content differs.
C27_HashFollowsTokens ==
    hashed.done => IF SameTokens THEN SameHashes ELSE DifferentHashes

\* C27, first half alone: equal tokens, equal hashes
C27_SameTokensSameHash == hashed.done /\ SameTokens => SameHashes

\* C27, second half alone: different tokens, different hashes
C27_OtherTokensOtherHash == hashed.done /\ ~SameTokens => DifferentHashes

\* C27 for texts of words and whitespace only
C27_HashFollowsWords ==
    hashed.done /\ PlainWords(hashed.sql1) /\ PlainWords(hashed.sql2) =>
        IF SameTokens THEN SameHashes ELSE DifferentHashes

----------------------------------------------------------------------------
(* Properties of execute_batch *)

\* the queries of the batch the last execute_batch answered
Batch == result_map.queries

\* every query of the batch has ended, by returning rows or by raising
AllFinished == \A i \in 1..Len(Batch) : Batch[i].pc \in {"returned", "raised"}

\* C28: execute_batch returns only after every query of the batch has
\* finished, and returns exactly one entry per query id; the entry of a failed
\* query is the empty list, the entry of any other query is its own rows, and
\* the call does not raise.
C28_BatchReturnsOneEntryPerQuery ==
    result_map # NoResult =>
        /\ AllFinished
        /\ ~result_map.raised
        /\ DOMAIN result_map.entries = {Batch[i].id : i \in 1..Len(Batch)}
        /\ \A i \in 1..Len(Batch) :
              result_map.entries[Batch[i].id] =
                  IF Batch[i].pc = "raised" THEN 0 ELSE Batch[i].rows

\* a batch with a failed query and a query that returned rows, in that order
C28_Witness ==
    /\ result_map # NoResult
    /\ \E i, j \in 1..Len(Batch) :
          /\ i < j
          /\ Batch[i].pc = "raised" /\ result_map.entries[Batch[i].id] = 0
          /\ Batch[j].pc = "returned" /\ result_map.entries[Batch[j].id] > 0

----------------------------------------------------------------------------
(* Properties of invalidate_dashboard_cache *)

\* f"dashboard:{slug}:", what the keys of a dashboard begin with
DashboardPrefix(slug) == StrDashboard \o slug \o <<":">>

\* f"dashboard:{slug}:*", what invalidate_dashboard_cache passes on
DashboardPattern(slug) == DashboardPrefix(slug) \o <<"*">>

\* the keys among ks that belong to the dashboard
KeysOf(slug, ks) == {k \in ks : StartsWith(k, DashboardPrefix(slug))}

\* C29: invalidate_dashboard_cache(slug) removes every cache entry whose key
\* starts with dashboard:{slug}:, so that none is left when it returns; the
\* service is on the local backend here.
C29_InvalidateRemovesDashboardEntries ==
    resp.op = "invalidate" => KeysOf(resp.slug, LiveKeys(cache, now)) = {}

\* with the local backend the call removes nothing and returns 0
C29_LocalInvalidateRemovesNothing ==
    [][resp'.op = "invalidate" => cache' = cache /\ resp'.count = 0]_vars

\* the pattern of a dashboard handed to the remote backend leaves no entry
\* of the dashboard there
C29_RemoteInvalidateRemovesDashboardEntries ==
    \A slug \in Slugs :
        bret.op = "invalidate_pattern" /\ bret.key = DashboardPattern(slug)
            => KeysOf(slug, bret.remoteKeys) = {}

\* the same pattern handed to the local backend
C29_LocalPatternRemovesDashboardEntries ==
    \A slug \in Slugs :
        bret.op = "invalidate_pattern" /\ bret.key = DashboardPattern(slug)
            => KeysOf(slug, bret.localKeys) = {}

----------------------------------------------------------------------------
(* Properties of set on a key that is present *)

\* the last call was a set on a key that was present and unexpired
Overwrote == cret.op = "set" /\ ~cret.isNew

\* C30: a set on a key that is already present and unexpired removes no other
\* entry, whatever the number of entries; unexpired entries are evicted only
\* when a set adds a new key to a cache that holds max_size unexpired entries.
C30_OverwriteEvictsNothing ==
    /\ Overwrote => cret.removed = {}
    /\ (cret.op = "set" /\ cret.removed # {}) => (cret.isNew /\ cret.full)

\* a set removes an unexpired entry only from a cache that holds max_size
\* unexpired entries, and then at most one
C30_EvictsOnlyWhenFull ==
    (cret.op = "set" /\ cret.removed # {})
        => (cret.full /\ Cardinality(cret.removed) = 1)

\* an overwrite in a cache below max_size removes nothing
C30_OverwriteBelowCapacityEvictsNothing ==
    (Overwrote /\ ~cret.full) => cret.removed = {}

\* an overwrite replaces the value and leaves the key present
C30_OverwriteReplacesValue ==
    Overwrote => \E i \in 1..Len(cache) :
                    cache[i].key = cret.key /\ <<cache[i].value>> = cret.value

====
